---- MODULE Spec2Model ----
(***************************************************************************)
(* Model of the RAG worker (src/src/workers/ragWorker.ts, second module of *)
(* the file, lines 370-1612): the DuckDBVectorStore singleton, the worker  *)
(* state and the async message handler self.onmessage.                     *)
(*                                                                         *)
(* A handler is an async function: it runs synchronously up to an await of *)
(* an external operation, is suspended there, and resumes in a later step. *)
(* While it is suspended the event loop delivers further messages, so      *)
(* handlers interleave at their awaits.  Each action below is one          *)
(* synchronous segment of a handler: the delivery of a message up to its   *)
(* first external await, or the continuation after one await up to the     *)
(* next.  Continuations of settled promises are microtasks and run before  *)
(* any further message, timer or external completion is delivered.         *)
(***************************************************************************)
EXTENDS Integers, Sequences, FiniteSets, TLC

\* ------------------------------------------------------------------ bounds
\* Messages a run may deliver, and the number the caller sends in a run of
\* SpecInit, SpecModel, SpecIndex, SpecQuery and Spec.
MaxReq == 5
InitRequests == 3
ModelRequests == 4
IndexRequests == 3
QueryRequests == 3
AllRequests == 3
MaxFaults == 1
MaxChatLen == 10
AnswerRequests == 3
StreamRequests == 2
MaxCallbacks == 3
DurableRequests == 4
RestoreRequests == 3
SaveRequests == 2
ClearRequests == 3
MaxProcesses == 2
SyntheticRequests == 3
MaxDim == 2
MaxRows == 3
MaxK == 2
MaxBytes == 2
MaxContent == 12
HandshakeRequests == 2
ChatRequests == 5
MaxNotices == 1
OverlapRequests == 3

\* ------------------------------------------------------- program constants
DefaultChunkSize == 500
DefaultChunkOverlap == 50
MemoryLimit == 10
TopK == 3
FlushLength == 20
PromptTurns == 6

Req == 1..MaxReq

VARIABLES
    \* event loop
    sent,          \* number of messages delivered to onmessage so far
    req,           \* req[r]: event.data of the r-th message
    pc,            \* pc[r]: where handler r is suspended ("idle", "done", or an await)
    loc,           \* loc[r]: the handler's local variables
    out,           \* out[r]: the messages handler r has posted, in order
    doneBefore,    \* doneBefore[r]: handlers that had returned when r was delivered
    faults,        \* number of external calls that have thrown so far
    faulty,        \* the external services that may throw in this run
    requests,      \* the number of messages the caller sends in this run
    epoch,         \* the worker process that is running: 1, 2, ...
    idbConnections, \* the process holds an IndexedDB connection it never closes
    deletePending, \* a deleteDatabase request is blocked by open connections
    call,          \* a function applied on its own: its arguments and result
    hook,          \* the refs and state of the useRAG hook that owns the worker
    \* module singletons of the vector store (lines 435-438) and the table
    globalDuckDB,
    globalDuckDBConnection,
    globalDuckDBInitialized,
    globalDuckDBInitializing,
    rows,          \* the rows of table "vectors", in insertion order
    nextId,        \* the next value of sequence vectors_id_seq
    idb,           \* the IndexedDB snapshot 'LuminaVectorStore'
    openCount,     \* calls of globalDuckDB.open()
    connectCount,  \* calls of globalDuckDB.connect()
    \* worker state (lines 956-964)
    vectorStore,
    textSplitter,
    isInitialized,
    isInitializing,
    model,
    isModelLoading,
    modelLoadPromise,
    conversationHistory,
    loads          \* loads[r]: the pipeline() call started by handler r

storeVars == <<globalDuckDB, globalDuckDBConnection, globalDuckDBInitialized,
               globalDuckDBInitializing, rows, nextId, idb, openCount,
               connectCount>>
dbVars == <<globalDuckDB, globalDuckDBConnection, globalDuckDBInitialized,
            globalDuckDBInitializing, openCount, connectCount>>
workerVars == <<vectorStore, textSplitter, isInitialized, isInitializing>>
modelVars == <<model, isModelLoading, modelLoadPromise, loads>>
envVars == <<faulty, requests, epoch, idbConnections, deletePending, call, hook>>
vars == <<sent, req, pc, loc, out, doneBefore, faults, faulty, requests,
          epoch, idbConnections, deletePending, call, hook,
          globalDuckDB, globalDuckDBConnection, globalDuckDBInitialized,
          globalDuckDBInitializing, rows, nextId, idb, openCount, connectCount,
          vectorStore, textSplitter, isInitialized, isInitializing,
          model, isModelLoading, modelLoadPromise, conversationHistory, loads>>

\* ------------------------------------------------------------- data shapes
NoSplitter == [chunkSize |-> 0, chunkOverlap |-> 0]

ZeroStats == [totalDocuments |-> 0, totalChunks |-> 0, averageChunkLength |-> 0]

NoReq ==
    [type |-> "", valid |-> TRUE, files |-> <<>>, chunkSize |-> 0,
     chunkOverlap |-> 0, chatHistory |-> <<>>, process |-> 0]

NoLoc ==
    [i |-> 0, j |-> 0, docs |-> <<>>, snap |-> <<>>, p |-> 0, count |-> 0,
     avg |-> 0, streamedText |-> <<>>, chunkBuffer |-> <<>>,
     chunkBufferTimeout |-> 0, timers |-> {}, callbacks |-> 0,
     modelAtSearch |-> FALSE, chat |-> <<>>]

Msg(t) ==
    [type |-> t, error |-> "", errorType |-> "", fileName |-> "", chunkCount |-> 0,
     skipped |-> FALSE, stats |-> ZeroStats, isFallback |-> FALSE,
     response |-> <<>>, chunk |-> <<>>]

ErrorMsg(et) == [Msg("ERROR") EXCEPT !.errorType = et]

\* An ERROR whose payload carries the message e of the error caught (the
\* message of an error an external call threw is the name of the call).
ErrorText(et, e) == [ErrorMsg(et) EXCEPT !.error = e]

StatsMsg(t, s) == [Msg(t) EXCEPT !.stats = s]

\* The external services: the DuckDB engine (bundle, instantiate, open,
\* connect, schema), its SQL queries, the embedding model, IndexedDB, and the
\* generation model (pipeline load, generation).
Services == {"duckdb", "sql", "embed", "idb", "model"}

\* A call of service c returns (TRUE) or throws (FALSE); it may throw when
\* the service is faulty in this run and the fault budget lasts.
Outcomes(c) == IF c \in faulty /\ faults < MaxFaults THEN {TRUE, FALSE} ELSE {TRUE}

Fault(ok) == faults' = IF ok THEN faults ELSE faults + 1

RECURSIVE SumLen(_)
SumLen(s) == IF s = <<>> THEN 0 ELSE Head(s).len + SumLen(Tail(s))

Sources(s) == {s[k].source : k \in 1..Len(s)}

\* Math.round of a non-negative quotient a / b
RoundDiv(a, b) == (2 * a + b) \div (2 * b)

\* --------------------------------------------------------------- inputs
\* Files a caller may send: name, and content as a number of characters.
FileA == [name |-> "a", content |-> 600]
FileB == [name |-> "b", content |-> 400]
FileE == [name |-> "e", content |-> 0]

Batches == {<<FileB, FileA>>, <<FileE, FileB>>}

\* Rows a previous process may have left in IndexedDB.
PriorSnapshots ==
    {<<>>, <<[id |-> 1, source |-> "p", chunk |-> 1, len |-> 300, by |-> 0]>>}

\* Snapshots for the runs that look at the answers of QUERY.
AnswerSnapshots ==
    {<<>>,
     <<[id |-> 1, source |-> "p", chunk |-> 1, len |-> 300, by |-> 0],
       [id |-> 2, source |-> "p", chunk |-> 2, len |-> 200, by |-> 0]>>}

UserTurn(c) == [role |-> "user", content |-> c]

AssistantTurn(c) == [role |-> "assistant", content |-> c]

\* A chat history of n turns as the caller's UI holds it (content 0).
UiHistory(n) ==
    [k \in 1..n |-> IF k % 2 = 1 THEN UserTurn(0) ELSE AssistantTurn(0)]

ChatHistories == {UiHistory(0), UiHistory(MaxChatLen - 1), UiHistory(MaxChatLen)}

\* ----------------------------------------------------------------- Init
\* The state after the module has been evaluated, in a run where the
\* services F may throw, the caller sends n messages, and IndexedDB holds
\* one of the snapshots P.
InitProgram(F, n, P) ==
    /\ faulty = F
    /\ requests = n
    /\ epoch = 1
    /\ idbConnections = FALSE
    /\ deletePending = FALSE
    /\ sent = 0
    /\ req = [r \in Req |-> NoReq]
    /\ pc = [r \in Req |-> "idle"]
    /\ loc = [r \in Req |-> NoLoc]
    /\ out = [r \in Req |-> <<>>]
    /\ doneBefore = [r \in Req |-> {}]
    /\ faults = 0
    /\ globalDuckDB = FALSE
    /\ globalDuckDBConnection = FALSE
    /\ globalDuckDBInitialized = FALSE
    /\ globalDuckDBInitializing = FALSE
    /\ rows = <<>>
    /\ nextId = 1
    /\ idb \in P
    /\ openCount = 0
    /\ connectCount = 0
    /\ vectorStore = FALSE
    /\ textSplitter = NoSplitter
    /\ isInitialized = FALSE
    /\ isInitializing = FALSE
    /\ model = FALSE
    /\ isModelLoading = FALSE
    /\ modelLoadPromise = 0
    /\ conversationHistory = <<>>
    /\ loads = [r \in Req |-> "none"]

\* In the runs of the worker no function is applied on its own.
NoCall == [fn |-> "", done |-> FALSE]

\* The hook before its effect has run (useRAG.ts lines 75-90): no worker,
\* both refs false, no chat.  `readyPosted` is the READY message on its way
\* from the worker, `posted` the messages given to worker.postMessage, and
\* seen[r] the number of messages of handler r that onmessage has handled.
NoHook ==
    [worker |-> FALSE, isInitializedRef |-> FALSE, initSentRef |-> FALSE,
     timeoutId |-> FALSE, readyPosted |-> FALSE, posted |-> <<>>,
     seen |-> [r \in Req |-> 0], chatHistory |-> <<>>, isQuerying |-> FALSE,
     isModelLoading |-> FALSE, modelLoadError |-> FALSE, totalChunks |-> 0,
     streamingResponseRef |-> <<>>]

\* In the runs of the worker on its own the messages come from any caller.
InitEnv(F, n, P) == InitProgram(F, n, P) /\ call = NoCall /\ hook = NoHook

\* ------------------------------------------------------------ event loop
Settled(l) == l \in Req /\ loads[l] \in {"ok", "failed"}

\* Handlers awaiting modelLoadPromise itself (lines 1066, 1114, 1237).
DirectWaiters(l) == {r \in Req : pc[r] \in {"lm_wait", "q_join"} /\ loc[r].p = l}

\* A continuation that is queued as a microtask: the awaited promise has settled.
Ready(r) == pc[r] \in {"lm_wait", "q_join", "q_own"} /\ Settled(loc[r].p)

MicrotaskPending == \E r \in Req : Ready(r)

\* Reactions of one promise run in the order they were registered; the
\* Promise.race of line 1282 settles after the promise it wraps.
NextMicrotask(r) ==
    /\ Ready(r)
    /\ \A s \in DirectWaiters(loc[r].p) : Ready(s) => r <= s \/ pc[r] = "q_own"
    /\ pc[r] = "q_own" => DirectWaiters(loc[r].p) = {}

\* Messages, timers and completions of external calls are tasks: one is
\* taken up only when no microtask is queued.
Task == ~MicrotaskPending

Deliver(r, m) ==
    /\ Task
    /\ sent < requests
    /\ sent < MaxReq
    /\ r = sent + 1
    /\ sent' = r
    /\ req' = [req EXCEPT ![r] = [m EXCEPT !.process = epoch]]
    /\ doneBefore' = [doneBefore EXCEPT ![r] = {s \in Req : pc[s] = "done"}]

Goto(r, p, l) ==
    /\ pc' = [pc EXCEPT ![r] = p]
    /\ loc' = [loc EXCEPT ![r] = l]

Return(r) == Goto(r, "done", NoLoc)

Post(r, ms) == out' = [out EXCEPT ![r] = @ \o ms]

\* -------------------------------------------------------------- getStats
Stats(count, avg, rs) ==
    [totalDocuments |-> Cardinality(Sources(rs)), totalChunks |-> count,
     averageChunkLength |-> avg]

\* What the caller of getStats (a handler of a message of type t) posts with
\* the result; it then returns.  The INIT handler leaves its try block through
\* the finally of line 1052.
StatsReturn(r, t, pre, s) ==
    /\ Post(r, pre \o
               CASE t = "INIT" ->
                      <<Msg("INIT_SUCCESS"), StatsMsg("STATS_RESULT", s)>>
                 [] t = "INDEX_DOCUMENTS" ->
                      <<Msg("INDEX_COMPLETE"), StatsMsg("STATS_RESULT", s)>>
                 [] t = "CLEAR_DATABASE" ->
                      <<StatsMsg("DATABASE_CLEARED", s)>>
                 [] OTHER -> <<StatsMsg("STATS_RESULT", s)>>)
    /\ isInitializing' = IF t = "INIT" THEN FALSE ELSE isInitializing
    /\ Return(r)

\* getStats is called: without a connection it returns zeros at once (line
\* 740), otherwise the COUNT/AVG query is awaited.  An INIT handler is inside
\* its try block, where isInitializing is true (line 1009).
StatsCall(r, t, pre) ==
    IF globalDuckDBConnection
    THEN /\ Goto(r, "stats_count", NoLoc)
         /\ isInitializing' = IF t = "INIT" THEN TRUE ELSE isInitializing
         /\ Post(r, pre)
    ELSE StatsReturn(r, t, pre, ZeroStats)

\* The COUNT/AVG query returns (a throw is caught: zeros).
StatsCount(r) ==
    /\ Task
    /\ pc[r] = "stats_count"
    /\ \E ok \in Outcomes("sql") :
        /\ Fault(ok)
        /\ IF ok
           THEN /\ Goto(r, "stats_meta",
                        [NoLoc EXCEPT !.count = Len(rows),
                                      !.avg = IF Len(rows) = 0 THEN 0
                                              ELSE RoundDiv(SumLen(rows), Len(rows))])
                /\ UNCHANGED <<out, isInitializing>>
           ELSE StatsReturn(r, req[r].type, <<>>, ZeroStats)
    /\ UNCHANGED <<sent, req, doneBefore, envVars, storeVars, vectorStore, textSplitter,
                   isInitialized, modelVars, conversationHistory>>

\* The metadata query returns (a throw is caught: zeros).
StatsMeta(r) ==
    /\ Task
    /\ pc[r] = "stats_meta"
    /\ \E ok \in Outcomes("sql") :
        /\ Fault(ok)
        /\ StatsReturn(r, req[r].type, <<>>,
                       IF ok THEN Stats(loc[r].count, loc[r].avg, rows)
                       ELSE ZeroStats)
    /\ UNCHANGED <<sent, req, doneBefore, envVars, storeVars, vectorStore, textSplitter,
                   isInitialized, modelVars, conversationHistory>>

\* ------------------------------------------- DuckDBVectorStore.initialize
\* initialize() has returned to the INIT handler (line 1030): the handler
\* sets isInitialized and calls getStats (lines 1032-1036).
InitializeReturned(r) ==
    /\ isInitialized' = TRUE
    /\ StatsCall(r, "INIT", <<>>)

\* initialize() has thrown.  Its catch and finally clear the store's flag
\* (lines 608-613); the INIT handler catches, posts ERROR and clears its own
\* flag (lines 1042-1054).
InitializeThrew(r, e) ==
    /\ globalDuckDBInitializing' = FALSE
    /\ isInitializing' = FALSE
    /\ Post(r, <<ErrorText("INIT", e)>>)
    /\ Return(r)

\* initialize() without the check of lines 536-539: an engine object without
\* a connection is replaced by a new one.
InitializeTryReplacing(r) ==
    IF globalDuckDB /\ globalDuckDBConnection
    THEN /\ globalDuckDBInitialized' = TRUE
         /\ globalDuckDBInitializing' = FALSE
         /\ InitializeReturned(r)
    ELSE /\ globalDuckDBInitializing' = TRUE
         /\ isInitializing' = TRUE
         /\ Goto(r, "init_bundle", NoLoc)
         /\ UNCHANGED <<globalDuckDBInitialized, isInitialized, out>>

\* Lines 508-542: the store's flag is taken and the try block runs to its
\* first await.
InitializeTry(r) ==
    IF globalDuckDB /\ globalDuckDBConnection
    THEN /\ globalDuckDBInitialized' = TRUE
         /\ globalDuckDBInitializing' = FALSE
         /\ InitializeReturned(r)
    ELSE IF globalDuckDB
    THEN /\ InitializeThrew(r, "Database exists but connection is missing")
         /\ UNCHANGED <<globalDuckDBInitialized, isInitialized>>
    ELSE /\ globalDuckDBInitializing' = TRUE
         /\ isInitializing' = TRUE
         /\ Goto(r, "init_bundle", NoLoc)
         /\ UNCHANGED <<globalDuckDBInitialized, isInitialized, out>>

\* Lines 481-506: the entry of initialize(), called from line 1030.
InitializeCall(r) ==
    IF globalDuckDBInitialized /\ globalDuckDB /\ globalDuckDBConnection
    THEN /\ InitializeReturned(r)
         /\ UNCHANGED <<globalDuckDBInitialized, globalDuckDBInitializing>>
    ELSE IF globalDuckDBInitializing
    THEN /\ Goto(r, "store_wait", NoLoc)
         /\ isInitializing' = TRUE
         /\ UNCHANGED <<globalDuckDBInitialized, globalDuckDBInitializing,
                        isInitialized, out>>
    ELSE InitializeTry(r)

\* ------------------------------------------------------------------ INIT
\* An INIT message is delivered (lines 976-1030).
RecvInit ==
    \E r \in Req :
        /\ Deliver(r, [NoReq EXCEPT !.type = "INIT"])
        /\ IF isInitialized
           THEN /\ Post(r, <<Msg("INIT_SUCCESS")>>)
                /\ Return(r)
                /\ UNCHANGED <<workerVars, globalDuckDBInitialized,
                               globalDuckDBInitializing>>
           ELSE IF isInitializing
           THEN /\ Goto(r, "init_wait", NoLoc)
                /\ UNCHANGED <<out, workerVars, globalDuckDBInitialized,
                               globalDuckDBInitializing>>
           ELSE /\ textSplitter' = [chunkSize |-> DefaultChunkSize,
                                    chunkOverlap |-> DefaultChunkOverlap]
                /\ vectorStore' = TRUE
                /\ InitializeCall(r)
        /\ UNCHANGED <<faults, envVars, globalDuckDB, globalDuckDBConnection, rows, nextId, idb,
                       openCount, connectCount, modelVars, conversationHistory>>

\* A polling loop ends (lines 990-1005 in the handler, 494-506 in the store):
\* its condition has become false or its 10 s have passed.
PollEnd(r) ==
    /\ Task
    /\ pc[r] \in {"init_wait", "store_wait"}
    /\ IF pc[r] = "init_wait"
       THEN /\ Post(r, <<IF isInitialized THEN Msg("INIT_SUCCESS")
                         ELSE ErrorText("INIT", "Initialization timeout")>>)
            /\ Return(r)
            /\ UNCHANGED <<isInitialized, isInitializing, globalDuckDBInitialized,
                           globalDuckDBInitializing>>
       ELSE IF globalDuckDBInitialized /\ globalDuckDB /\ globalDuckDBConnection
       THEN /\ InitializeReturned(r)
            /\ UNCHANGED <<globalDuckDBInitialized, globalDuckDBInitializing>>
       ELSE IF globalDuckDBInitializing
       THEN \* line 505 throws outside the try block of initialize()
            /\ isInitializing' = FALSE
            /\ Post(r, <<ErrorText("INIT",
                                   "Database initialization already in progress")>>)
            /\ Return(r)
            /\ UNCHANGED <<isInitialized, globalDuckDBInitialized,
                           globalDuckDBInitializing>>
       ELSE InitializeTry(r)
    /\ UNCHANGED <<sent, req, doneBefore, envVars, faults, globalDuckDB,
                   globalDuckDBConnection, rows, nextId, idb, openCount, connectCount,
                   vectorStore, textSplitter, modelVars, conversationHistory>>

\* selectBundle and createWorker return (lines 541-547): the AsyncDuckDB
\* object is created and instantiate() is awaited.
InitBundle(r) ==
    /\ Task
    /\ pc[r] = "init_bundle"
    /\ \E ok \in Outcomes("duckdb") :
        /\ Fault(ok)
        /\ IF ok
           THEN /\ globalDuckDB' = TRUE
                /\ Goto(r, "init_instantiate", NoLoc)
                /\ UNCHANGED <<globalDuckDBInitializing, isInitializing, out>>
           ELSE /\ InitializeThrew(r, "selectBundle")
                /\ UNCHANGED globalDuckDB
    /\ UNCHANGED <<sent, req, doneBefore, envVars, globalDuckDBConnection,
                   globalDuckDBInitialized, rows, nextId, idb, openCount, connectCount,
                   vectorStore, textSplitter, isInitialized, modelVars,
                   conversationHistory>>

\* instantiate() returns (lines 548-564): open() is called unless a
\* connection already exists.
InitInstantiate(r) ==
    /\ Task
    /\ pc[r] = "init_instantiate"
    /\ \E ok \in Outcomes("duckdb") :
        /\ Fault(ok)
        /\ IF ok /\ ~globalDuckDBConnection
           THEN /\ openCount' = openCount + 1
                /\ Goto(r, "init_open", NoLoc)
                /\ UNCHANGED <<globalDuckDBInitializing, isInitializing, out>>
           ELSE /\ InitializeThrew(r, IF ok THEN "Connection already exists"
                                        ELSE "instantiate")
                /\ UNCHANGED openCount
    /\ UNCHANGED <<sent, req, doneBefore, envVars, globalDuckDB, globalDuckDBConnection,
                   globalDuckDBInitialized, rows, nextId, idb, connectCount,
                   vectorStore, textSplitter, isInitialized, modelVars,
                   conversationHistory>>

\* open() returns (lines 559-567): connect() is called.
InitOpen(r) ==
    /\ Task
    /\ pc[r] = "init_open"
    /\ \E ok \in Outcomes("duckdb") :
        /\ Fault(ok)
        /\ IF ok
           THEN /\ connectCount' = connectCount + 1
                /\ Goto(r, "init_connect", NoLoc)
                /\ UNCHANGED <<globalDuckDBInitializing, isInitializing, out>>
           ELSE /\ InitializeThrew(r, "open")
                /\ UNCHANGED connectCount
    /\ UNCHANGED <<sent, req, doneBefore, envVars, globalDuckDB, globalDuckDBConnection,
                   globalDuckDBInitialized, rows, nextId, idb, openCount,
                   vectorStore, textSplitter, isInitialized, modelVars,
                   conversationHistory>>

\* connect() returns a connection, or throws or returns none (lines 567-593);
\* then the sequence and the table are created.
InitConnect(r) ==
    /\ Task
    /\ pc[r] = "init_connect"
    /\ \E ok \in Outcomes("duckdb") :
        /\ Fault(ok)
        /\ IF ok
           THEN /\ globalDuckDBConnection' = TRUE
                /\ Goto(r, "init_schema", NoLoc)
                /\ UNCHANGED <<globalDuckDBInitializing, isInitializing, out>>
           ELSE /\ InitializeThrew(r, "connect")
                /\ UNCHANGED globalDuckDBConnection
    /\ UNCHANGED <<sent, req, doneBefore, envVars, globalDuckDB,
                   globalDuckDBInitialized, rows, nextId, idb, openCount, connectCount,
                   vectorStore, textSplitter, isInitialized, modelVars,
                   conversationHistory>>

\* CREATE SEQUENCE (errors ignored) and CREATE TABLE (errors thrown) return
\* (lines 576-604); on the first initialization loadFromIndexedDB is called.
InitSchema(r) ==
    /\ Task
    /\ pc[r] = "init_schema"
    /\ \E ok \in Outcomes("duckdb") :
        /\ Fault(ok)
        /\ IF ok /\ ~globalDuckDBInitialized
           THEN /\ Goto(r, "init_load", NoLoc)
                /\ UNCHANGED <<globalDuckDBInitialized, globalDuckDBInitializing,
                               isInitialized, isInitializing, out>>
           ELSE IF ok
           THEN /\ globalDuckDBInitialized' = TRUE
                /\ globalDuckDBInitializing' = FALSE
                /\ InitializeReturned(r)
           ELSE /\ InitializeThrew(r, "schema")
                /\ UNCHANGED <<globalDuckDBInitialized, isInitialized>>
    /\ UNCHANGED <<sent, req, doneBefore, envVars, globalDuckDB, globalDuckDBConnection,
                   rows, nextId, idb, openCount, connectCount, vectorStore, textSplitter,
                   modelVars, conversationHistory>>

\* A load that inserts nothing.
LoadedNone(snapshot, r) == <<>>

\* The rows of a snapshot as loadFromIndexedDB inserts them (lines 934-944).
Loaded(snapshot, r) ==
    [k \in 1..Len(snapshot) |->
        [snapshot[k] EXCEPT !.id = nextId + k - 1, !.by = r]]

\* loadFromIndexedDB returns (lines 909-952, 606-613).  A failure is caught
\* and logged; the rows inserted before it stay, and db.close() of line 948
\* is not reached.
InitLoad(r) ==
    /\ Task
    /\ pc[r] = "init_load"
    /\ \E ok \in Outcomes("idb") :
        /\ Fault(ok)
        /\ IF ok
           THEN /\ rows' = rows \o Loaded(idb, r)
                /\ nextId' = nextId + Len(idb)
           ELSE \E k \in 0..Len(idb) :
                    /\ k = 0 \/ k < Len(idb)
                    /\ rows' = rows \o SubSeq(Loaded(idb, r), 1, k)
                    /\ nextId' = nextId + k
        /\ idbConnections' = (idbConnections \/ ~ok)
    /\ globalDuckDBInitialized' = TRUE
    /\ globalDuckDBInitializing' = FALSE
    /\ InitializeReturned(r)
    /\ UNCHANGED <<sent, req, doneBefore, faulty, requests, call, hook, epoch, deletePending,
                   globalDuckDB, globalDuckDBConnection,
                   idb, openCount, connectCount, vectorStore, textSplitter,
                   modelVars, conversationHistory>>

\* --------------------------------------------------------------- GET_STATS
\* A GET_STATS message is delivered (lines 1424-1450).
RecvGetStats ==
    \E r \in Req :
        /\ Deliver(r, [NoReq EXCEPT !.type = "GET_STATS"])
        /\ IF ~vectorStore \/ ~isInitialized
           THEN /\ Post(r, <<StatsMsg("STATS_RESULT", ZeroStats)>>)
                /\ Return(r)
                /\ UNCHANGED isInitializing
           ELSE StatsCall(r, "GET_STATS", <<>>)
        /\ UNCHANGED <<faults, envVars, storeVars, vectorStore, textSplitter,
                       isInitialized, modelVars, conversationHistory>>

\* ------------------------------------------------------------ CLEAR_MEMORY
\* A CLEAR_MEMORY message is delivered (lines 1418-1422).
RecvClearMemory ==
    \E r \in Req :
        /\ Deliver(r, [NoReq EXCEPT !.type = "CLEAR_MEMORY"])
        /\ conversationHistory' = <<>>
        /\ Post(r, <<Msg("MEMORY_CLEARED")>>)
        /\ Return(r)
        /\ UNCHANGED <<faults, envVars, storeVars, workerVars, modelVars>>

\* ------------------------------------------------------------ unknown type
\* A message of no known type is delivered (lines 1596-1600).
\* A default case that also forgets the conversation.
RecvUnknownForgets ==
    \E r \in Req :
        /\ Deliver(r, [NoReq EXCEPT !.type = "UNKNOWN"])
        /\ Post(r, <<Msg("ERROR")>>)
        /\ Return(r)
        /\ conversationHistory' = <<>>
        /\ UNCHANGED <<faults, envVars, storeVars, workerVars, modelVars>>

RecvUnknown ==
    \E r \in Req :
        /\ Deliver(r, [NoReq EXCEPT !.type = "UNKNOWN"])
        /\ Post(r, <<Msg("ERROR")>>)
        /\ Return(r)
        /\ UNCHANGED <<faults, envVars, storeVars, workerVars, modelVars,
                       conversationHistory>>

\* ------------------------------------------------------ model loading
\* The async function of lines 1073-1112 and 1252-1279 starts: pipeline() is
\* called and the promise is published.
StartLoad(r) ==
    /\ isModelLoading' = TRUE
    /\ modelLoadPromise' = r
    /\ loads' = [loads EXCEPT ![r] = "running"]
    /\ UNCHANGED model

\* A load whose failure leaves the flag and the promise in place.
PipelineSettleSticky(l) ==
    /\ Task
    /\ loads[l] = "running"
    /\ req[l].type \in {"LOAD_MODEL", "QUERY"}
    /\ \E ok \in Outcomes("model") :
        /\ Fault(ok)
        /\ loads' = [loads EXCEPT ![l] = IF ok THEN "ok" ELSE "failed"]
        /\ model' = (ok \/ model)
        /\ isModelLoading' = (~ok /\ isModelLoading)
        /\ modelLoadPromise' = IF ok THEN 0 ELSE modelLoadPromise
    /\ UNCHANGED <<sent, req, pc, loc, out, doneBefore, envVars, storeVars, workerVars,
                   conversationHistory>>

\* pipeline() of a published load returns or throws: the async function
\* stores the model and its finally clears the flag and the promise (lines
\* 1103-1111, 1270-1278), whichever load they belong to by then.
PipelineSettle(l) ==
    /\ Task
    /\ loads[l] = "running"
    /\ req[l].type \in {"LOAD_MODEL", "QUERY"}
    /\ \E ok \in Outcomes("model") :
        /\ Fault(ok)
        /\ loads' = [loads EXCEPT ![l] = IF ok THEN "ok" ELSE "failed"]
        /\ model' = (ok \/ model)
    /\ isModelLoading' = FALSE
    /\ modelLoadPromise' = 0
    /\ UNCHANGED <<sent, req, pc, loc, out, doneBefore, envVars, storeVars, workerVars,
                   conversationHistory>>

\* ------------------------------------------------------------ LOAD_MODEL
\* A LOAD_MODEL message is delivered (lines 1058-1114).
RecvLoadModel ==
    \E r \in Req :
        /\ Deliver(r, [NoReq EXCEPT !.type = "LOAD_MODEL"])
        /\ IF model
           THEN /\ Post(r, <<Msg("MODEL_LOADED")>>)
                /\ Return(r)
                /\ UNCHANGED modelVars
           ELSE IF isModelLoading /\ modelLoadPromise # 0
           THEN /\ Goto(r, "lm_wait", [NoLoc EXCEPT !.p = modelLoadPromise])
                /\ UNCHANGED <<out, modelVars>>
           ELSE /\ StartLoad(r)
                /\ Goto(r, "lm_wait", [NoLoc EXCEPT !.p = r])
                /\ UNCHANGED out
        /\ UNCHANGED <<faults, envVars, storeVars, workerVars, conversationHistory>>

\* The awaited load promise has settled (lines 1066-1068, 1114-1115); a
\* rejection reaches the outer catch (lines 1602-1611).
LoadModelResume(r) ==
    /\ NextMicrotask(r)
    /\ pc[r] = "lm_wait"
    /\ Post(r, <<IF loads[loc[r].p] = "ok" THEN Msg("MODEL_LOADED")
                 ELSE ErrorMsg("LOAD_MODEL")>>)
    /\ Return(r)
    /\ UNCHANGED <<sent, req, doneBefore, envVars, faults, storeVars, workerVars,
                   modelVars, conversationHistory>>

\* ----------------------------------------------------- cosineSimilarity
\* A similarity is NaN, or the number dot / sqrt(nn) with nn > 0.
NaN == [nan |-> TRUE, dot |-> 0, nn |-> 1]

Number(dot, nn) == [nan |-> FALSE, dot |-> dot, nn |-> nn]

Abs(x) == IF x < 0 THEN -x ELSE x

\* x < y for two numbers: t |-> t * |t| is increasing.
SimLess(x, y) == x.dot * Abs(x.dot) * y.nn < y.dot * Abs(y.dot) * x.nn

RECURSIVE Dot(_, _)
Dot(a, b) == IF a = <<>> THEN 0 ELSE Head(a) * Head(b) + Dot(Tail(a), Tail(b))

\* cosineSimilarity (lines 841-852): 0 for vectors of different lengths,
\* otherwise dotProduct / (sqrt(normA) * sqrt(normB)), which is 0 / 0 = NaN
\* when a norm is 0.
CosineSimilarity(a, b) ==
    IF Len(a) # Len(b) THEN Number(0, 1)
    ELSE IF Dot(a, a) * Dot(b, b) = 0 THEN NaN
    ELSE Number(Dot(a, b), Dot(a, a) * Dot(b, b))

\* Vectors of 1..MaxDim components.
Vectors == UNION {[1..d -> {-1, 0, 1}] : d \in 1..MaxDim}

CosineCalls ==
    {[fn |-> "cosineSimilarity", a |-> a, b |-> b, done |-> FALSE, result |-> NaN] :
        a \in Vectors, b \in Vectors}

CallCosineSimilarity ==
    /\ call.fn = "cosineSimilarity" /\ ~call.done
    /\ call' = [call EXCEPT !.done = TRUE, !.result = CosineSimilarity(call.a, call.b)]
    /\ UNCHANGED <<sent, req, pc, loc, out, doneBefore, faults, faulty, requests,
                   hook, epoch, idbConnections, deletePending, storeVars, workerVars,
                   modelVars, conversationHistory>>

InitCosine == InitProgram({}, 0, {<<>>}) /\ hook = NoHook /\ call \in CosineCalls

SpecCosine == InitCosine /\ [][CallCosineSimilarity]_vars

\* ------------------------------------------------------ similaritySearch
\* Array.prototype.sort with the comparator (a, b) => b.similarity -
\* a.similarity (line 681), as the orders of the indices 1..n it may leave.
\* A NaN difference counts as 0.  The comparator is consistent unless some
\* similarity is NaN and two others differ; then the order is
\* implementation-defined.
Orders(n) ==
    {f \in [1..n -> 1..n] : \A i, j \in 1..n : f[i] = f[j] => i = j}

Before(similarities, i, j) ==
    /\ ~similarities[i].nan /\ ~similarities[j].nan
    /\ SimLess(similarities[j], similarities[i])

ConsistentComparator(similarities) ==
    \/ \A i \in 1..Len(similarities) : ~similarities[i].nan
    \/ \A i, j \in 1..Len(similarities) :
          ~Before(similarities, i, j)

SortOrders(similarities) ==
    LET n == Len(similarities) IN
    IF ConsistentComparator(similarities)
    THEN {f \in Orders(n) :
            \A u, v \in 1..n :
                u < v => /\ ~Before(similarities, f[v], f[u])
                         /\ ~Before(similarities, f[u], f[v]) => f[u] < f[v]}
    ELSE Orders(n)

\* similaritySearch (lines 656-691) on the stored vectors, as the indices of
\* the rows it may return, in order: the similarities are computed, sorted,
\* and the first k taken.
SearchResults(queryVector, stored, k) ==
    LET similarities == [i \in 1..Len(stored) |->
                            CosineSimilarity(queryVector, stored[i])]
        m == IF Len(stored) < k THEN Len(stored) ELSE k
    IN {[i \in 1..m |-> f[i]] : f \in SortOrders(similarities)}

\* The vectors a row may hold.
StoredVectors == {<<0, 0>>, <<1, 0>>, <<1, 1>>, <<0, 1>>, <<-1, 0>>, <<1>>}

Stores == UNION {[1..n -> StoredVectors] : n \in 0..MaxRows}

SearchCalls ==
    {[fn |-> "similaritySearch", queryVector |-> q, stored |-> st, k |-> k,
      done |-> FALSE, result |-> <<>>] :
        q \in {<<1, 0>>, <<0, 0>>}, st \in Stores, k \in 1..MaxK}

CallSimilaritySearch ==
    /\ call.fn = "similaritySearch" /\ ~call.done
    /\ \E result \in SearchResults(call.queryVector, call.stored, call.k) :
        call' = [call EXCEPT !.done = TRUE, !.result = result]
    /\ UNCHANGED <<sent, req, pc, loc, out, doneBefore, faults, faulty, requests,
                   hook, epoch, idbConnections, deletePending, storeVars, workerVars,
                   modelVars, conversationHistory>>

InitSearch == InitProgram({}, 0, {<<>>}) /\ hook = NoHook /\ call \in SearchCalls

SpecSearch == InitSearch /\ [][CallSimilaritySearch]_vars

\* The rows similaritySearch returns (lines 669-690) in the runs of the
\* worker, where the rows carry no vectors: every row has the same
\* similarity, and the stable sort keeps the insertion order.
SimilaritySearch(rs, k) == SubSeq(rs, 1, IF Len(rs) < k THEN Len(rs) ELSE k)

\* ------------------------------------------------------------------ text
\* A text is the sequence of its characters.  The text of a stored chunk is
\* not looked into: one symbol stands for it.
PageContent(row) == <<row.source \o "#" \o ToString(row.chunk)>>

NoDocuments == <<"No relevant documents found in the knowledge base.">>

\* The fallback response without the numbering.
FallbackResponseUnnumbered(results) ==
    IF Len(results) = 0 THEN NoDocuments
    ELSE LET RECURSIVE joinPlain(_)
             joinPlain(k) ==
                 IF k > Len(results) THEN <<>>
                 ELSE (IF k > 1 THEN <<"\n", "\n">> ELSE <<>>)
                      \o PageContent(results[k]) \o joinPlain(k + 1)
         IN joinPlain(1)

\* The fallback response without the case of no results.
FallbackResponseAlwaysJoin(results) ==
    LET RECURSIVE joinAll(_)
        joinAll(k) ==
            IF k > Len(results) THEN <<>>
            ELSE (IF k > 1 THEN <<"\n", "\n">> ELSE <<>>)
                 \o <<"[", ToString(k), "]", " ">>
                 \o PageContent(results[k]) \o joinAll(k + 1)
    IN joinAll(1)

\* Lines 1301-1303: the results as "[i] text", joined by blank lines, or the
\* fixed sentence when there are none.
FallbackResponse(results) ==
    IF Len(results) = 0 THEN NoDocuments
    ELSE LET RECURSIVE join(_)
             join(k) ==
                 IF k > Len(results) THEN <<>>
                 ELSE (IF k > 1 THEN <<"\n", "\n">> ELSE <<>>)
                      \o <<"[", ToString(k), "]", " ">>
                      \o PageContent(results[k]) \o join(k + 1)
         IN join(1)

\* The prompt apply_chat_template returns (lines 1340-1343): one symbol
\* stands for its text, which no generated text contains.
Prompt == <<"<prompt>">>

Word(n) == [k \in 1..n |-> "x"]

\* The texts the streamer hands to callback_function, one per call.
Pieces == {<<" ">>, Word(FlushLength \div 2)}

RECURSIVE TrimStart(_)
TrimStart(t) == IF t # <<>> /\ Head(t) \in {" ", "\n"} THEN TrimStart(Tail(t)) ELSE t

RECURSIVE TrimEnd(_)
TrimEnd(t) ==
    IF t # <<>> /\ t[Len(t)] \in {" ", "\n"} THEN TrimEnd(SubSeq(t, 1, Len(t) - 1))
    ELSE t

\* String.prototype.trim
Trim(t) == TrimEnd(TrimStart(t))

StartsWith(t, prefix) ==
    Len(prefix) <= Len(t) /\ SubSeq(t, 1, Len(prefix)) = prefix

\* Lines 1396-1398
CleanResponse(responseContent, prompt) ==
    IF StartsWith(responseContent, prompt)
    THEN Trim(SubSeq(responseContent, Len(prompt) + 1, Len(responseContent)))
    ELSE Trim(responseContent)

\* The text in the output of the model call (lines 1376, 1389-1393): the
\* pipeline returns the prompt followed by what it generated.
GeneratedText(prompt, generated) == prompt \o generated

ChunkMsg(text) == [Msg("QUERY_CHUNK") EXCEPT !.chunk = text]

\* A flushChunkBuffer that posts nothing.
FlushChunkBufferSilent(chunkBuffer) == <<>>

\* What flushChunkBuffer posts (lines 1349-1355).
FlushChunkBuffer(chunkBuffer) ==
    IF Len(chunkBuffer) > 0 THEN <<ChunkMsg(chunkBuffer)>> ELSE <<>>

\* ------------------------------------------------------------ onProgress
\* A progress value is NaN, or the number num / den with den > 0, or an
\* infinity (den = 0, the sign that of num).
NotANumber == [nan |-> TRUE, num |-> 0, den |-> 1]

Fraction(num, den) == [nan |-> FALSE, num |-> num, den |-> den]

\* loaded / total for two integers: 0 / 0 is NaN, n / 0 an infinity.
Quotient(loaded, total) ==
    IF total = 0
    THEN IF loaded = 0 THEN NotANumber
         ELSE Fraction(IF loaded < 0 THEN -1 ELSE 1, 0)
    ELSE IF total < 0 THEN Fraction(-loaded, -total)
    ELSE Fraction(loaded, total)

\* x / 100.
Hundredth(x) == [x EXCEPT !.den = @ * 100]

\* Math.max(0, Math.min(1, x)) (line 1096): NaN stays NaN.
Clamp(x) ==
    IF x.nan THEN x
    ELSE IF x.num < 0 THEN Fraction(0, 1)
    ELSE IF x.num > x.den THEN Fraction(1, 1)
    ELSE x

Digits == {ToString(d) : d \in 0..9}

DigitOf(c) == CHOOSE d \in 0..9 : ToString(d) = c

\* parseInt of a run of digits.
RECURSIVE DigitsValue(_)
DigitsValue(text) ==
    IF text = <<>> THEN 0
    ELSE DigitsValue(SubSeq(text, 1, Len(text) - 1)) * 10 + DigitOf(text[Len(text)])

\* progress.match(/(\d+)%/): the places <<i, j>> of the digits of the
\* leftmost match, none when nothing matches.
MatchPercent(text) ==
    LET matches == {m \in (1..Len(text)) \X (1..Len(text)) :
                      /\ m[1] <= m[2] /\ m[2] < Len(text)
                      /\ \A k \in m[1]..m[2] : text[k] \in Digits
                      /\ text[m[2] + 1] = "%"}
    IN {m \in matches : \A o \in matches : m[1] <= o[1]}

\* Number(text): the value of a run of digits, 0 for the empty string, NaN
\* for anything else.
NumberOf(text) ==
    IF \A k \in 1..Len(text) : text[k] \in Digits
    THEN Fraction(DigitsValue(text), 1) ELSE NotANumber

\* progressValue as the onProgress of LOAD_MODEL (lines 1075-1095) and of
\* GENERATE_SYNTHETIC (lines 1505-1525) computes it.
ProgressValue(progress) ==
    CASE progress.kind = "number" -> progress.value
      [] progress.kind = "string" ->
            IF MatchPercent(progress.text) = {} THEN Fraction(0, 1)
            ELSE LET m == CHOOSE m \in MatchPercent(progress.text) : TRUE
                 IN Fraction(DigitsValue(SubSeq(progress.text, m[1], m[2])), 100)
      [] progress.kind = "object" -> Quotient(progress.loaded, progress.total)
      [] progress.kind = "progressNumber" -> progress.value
      [] progress.kind = "progressString" -> Hundredth(NumberOf(progress.text))

\* progressValue as the onProgress of QUERY (lines 1254-1262) computes it:
\* a number, or an object with loaded and total; anything else is 0.
QueryProgressValue(progress) ==
    CASE progress.kind = "number" -> progress.value
      [] progress.kind = "object" -> Quotient(progress.loaded, progress.total)
      [] OTHER -> Fraction(0, 1)

\* The progress of the MODEL_PROGRESS message that the onProgress of a load
\* path posts.
OnProgress(path, progress) ==
    Clamp(IF path = "QUERY" THEN QueryProgressValue(progress)
          ELSE ProgressValue(progress))

LoadPaths == {"LOAD_MODEL", "QUERY", "GENERATE_SYNTHETIC"}

ProgressTexts ==
    {<<"4", "5", "%">>, <<"7", "%">>, <<"1", "5", "0", "%">>, <<"0", "%">>,
     <<"4", "5">>, <<"a", "%">>, <<>>}

ProgressNumbers == {Fraction(n, 2) : n \in -1..3}

\* What pipeline() may hand to progress_callback.
ProgressInputs ==
    {[kind |-> "number", value |-> v] : v \in ProgressNumbers}
    \cup {[kind |-> "string", text |-> t] : t \in ProgressTexts}
    \cup {[kind |-> "object", loaded |-> l, total |-> t] :
             l \in 0..MaxBytes, t \in 0..MaxBytes}
    \cup {[kind |-> "progressNumber", value |-> v] : v \in ProgressNumbers}
    \cup {[kind |-> "progressString", text |-> t] : t \in ProgressTexts}

ProgressCalls ==
    {[fn |-> "onProgress", path |-> path, progress |-> progress, done |-> FALSE,
      result |-> NotANumber] : path \in LoadPaths, progress \in ProgressInputs}

CallOnProgress ==
    /\ call.fn = "onProgress" /\ ~call.done
    /\ call' = [call EXCEPT !.done = TRUE,
                            !.result = OnProgress(call.path, call.progress)]
    /\ UNCHANGED <<sent, req, pc, loc, out, doneBefore, faults, faulty, requests,
                   hook, epoch, idbConnections, deletePending, storeVars, workerVars,
                   modelVars, conversationHistory>>

InitProgress == InitProgram({}, 0, {<<>>}) /\ hook = NoHook /\ call \in ProgressCalls

SpecProgress == InitProgress /\ [][CallOnProgress]_vars

\* ----------------------------------------------------------------- QUERY
\* A handler that goes on to generation without calling similaritySearch.
SearchCallSkipped(r) == Goto(r, "q_gen", NoLoc) /\ UNCHANGED out

\* Lines 1297: similaritySearch is called; without a connection it throws
\* (line 657), which reaches the outer catch.
SearchCall(r) ==
    IF globalDuckDBConnection
    THEN Goto(r, "q_search", [NoLoc EXCEPT !.modelAtSearch = model])
         /\ UNCHANGED out
    ELSE Post(r, <<ErrorText("QUERY", "DuckDB not initialized")>>) /\ Return(r)

\* Lines 1245-1297, with the flags as the preceding lines left them: start a
\* load of its own and await it against the 60 s timer, or go on to retrieval.
QueryAfterWait(r, loading) ==
    IF ~model /\ ~loading
    THEN /\ StartLoad(r)
         /\ Goto(r, "q_own", [NoLoc EXCEPT !.p = r])
         /\ UNCHANGED out
    ELSE /\ isModelLoading' = loading
         /\ modelLoadPromise' = IF loading THEN modelLoadPromise ELSE 0
         /\ UNCHANGED <<model, loads>>
         /\ SearchCall(r)

\* Lines 1227-1231: the memory is replaced by a non-empty chatHistory, then
\* the user turn is pushed.
PushUser(history, chatHistory, r) ==
    Append(IF Len(chatHistory) > 0 THEN chatHistory ELSE history, UserTurn(r))

\* A QUERY message is delivered (lines 1217-1297), its chatHistory one of
\* `histories`.
RecvQuery(histories) ==
    \E r \in Req, v \in BOOLEAN, h \in histories :
        /\ Deliver(r, [NoReq EXCEPT !.type = "QUERY", !.valid = v,
                                    !.chatHistory = h])
        /\ IF ~vectorStore \/ ~isInitialized \/ ~v
           THEN /\ Post(r, <<ErrorText("QUERY",
                                       IF ~vectorStore \/ ~isInitialized
                                       THEN "Vector store not initialized"
                                       ELSE "Invalid payload for QUERY")>>)
                /\ Return(r)
                /\ UNCHANGED <<modelVars, conversationHistory>>
           ELSE /\ conversationHistory' = PushUser(conversationHistory, h, r)
                /\ IF ~model /\ isModelLoading /\ modelLoadPromise # 0
                   THEN /\ Goto(r, "q_join", [NoLoc EXCEPT !.p = modelLoadPromise])
                        /\ UNCHANGED <<out, modelVars>>
                   ELSE QueryAfterWait(r, isModelLoading)
        /\ UNCHANGED <<faults, envVars, storeVars, workerVars>>

\* The load a QUERY joined has settled (lines 1237-1243); a rejection is
\* caught and logged.
QueryJoinResume(r) ==
    /\ NextMicrotask(r)
    /\ pc[r] = "q_join"
    /\ QueryAfterWait(r, isModelLoading)
    /\ UNCHANGED <<sent, req, doneBefore, envVars, faults, storeVars, workerVars,
                   conversationHistory>>

\* The load a QUERY started has settled (lines 1282-1294); a rejection is
\* caught and clears the flag and the promise.
QueryOwnResume(r) ==
    /\ NextMicrotask(r)
    /\ pc[r] = "q_own"
    /\ isModelLoading' = (loads[loc[r].p] = "ok" /\ isModelLoading)
    /\ modelLoadPromise' = IF loads[loc[r].p] = "ok" THEN modelLoadPromise ELSE 0
    /\ SearchCall(r)
    /\ UNCHANGED <<sent, req, doneBefore, envVars, faults, storeVars, workerVars,
                   model, loads, conversationHistory>>

\* The 60 s timer of line 1285 fires before the load has settled: the catch
\* of lines 1289-1294 clears the flag and the promise; the load goes on.
QueryLoadTimeout(r) ==
    /\ Task
    /\ pc[r] = "q_own"
    /\ loads[loc[r].p] = "running"
    /\ isModelLoading' = FALSE
    /\ modelLoadPromise' = 0
    /\ SearchCall(r)
    /\ UNCHANGED <<sent, req, doneBefore, envVars, faults, storeVars, workerVars,
                   model, loads, conversationHistory>>

\* conversationHistory.slice(0, 6): the oldest turns.
OldestTurns(history) ==
    SubSeq(history, 1, IF Len(history) < PromptTurns THEN Len(history) ELSE PromptTurns)

\* conversationHistory.slice(-6) (line 1332).
RecentTurns(history) ==
    SubSeq(history, IF Len(history) < PromptTurns THEN 1 ELSE Len(history) - PromptTurns + 1,
           Len(history))

\* Line 1333: every role but 'user' becomes 'assistant'.
ChatTurn(msg) ==
    [role |-> IF msg.role = "user" THEN "user" ELSE "assistant", content |-> msg.content]

\* The chat handed to apply_chat_template (lines 1330-1337) by the QUERY r:
\* the system prompt, the recent turns, and the turn with the context and
\* the question.
Chat(history, r) ==
    <<[role |-> "system", content |-> "systemPrompt"]>>
    \o [k \in 1..Len(RecentTurns(history)) |-> ChatTurn(RecentTurns(history)[k])]
    \o <<[role |-> "user", content |-> [context |-> "contextText", query |-> r]]>>

\* similaritySearch returns or throws (lines 1297-1342): without a model the
\* fallback is posted, otherwise the prompt is built and generation starts.
QuerySearch(r) ==
    /\ Task
    /\ pc[r] = "q_search"
    /\ \E ok \in Outcomes("embed") :
        /\ Fault(ok)
        /\ IF ~ok
           THEN Post(r, <<ErrorText("QUERY", "similaritySearch")>>) /\ Return(r)
           ELSE IF ~model
           THEN /\ Post(r, <<[Msg("QUERY_RESULT") EXCEPT
                                !.isFallback = TRUE,
                                !.response =
                                    FallbackResponse(SimilaritySearch(rows, TopK))]>>)
                /\ Return(r)
           ELSE /\ Goto(r, "q_gen",
                        [NoLoc EXCEPT !.chat = Chat(conversationHistory, r)])
                /\ UNCHANGED out
    /\ UNCHANGED <<sent, req, doneBefore, envVars, storeVars, workerVars, modelVars,
                   conversationHistory>>

\* Lines 1402-1406: the assistant turn is pushed and the memory trimmed.
PushAssistant(history, r) ==
    LET h == Append(history, AssistantTurn(r)) IN
    IF Len(h) > MemoryLimit THEN SubSeq(h, Len(h) - MemoryLimit + 1, Len(h))
    ELSE h

\* The locals of a QUERY handler that concern the buffer: chunkBuffer, the
\* handle chunkBufferTimeout (0 for null, otherwise the timer set by the
\* callback of that number) and `timers`, the 50 ms timers set and neither
\* fired nor cleared.

\* A flushChunkBuffer that leaves the timer alone.
FlushedKeepsTimer(l) == [l EXCEPT !.chunkBuffer = <<>>]

\* The locals after flushChunkBuffer (lines 1348-1359): the buffer is
\* emptied, the timer of the handle is cleared and the handle set to null.
Flushed(l) ==
    [l EXCEPT !.chunkBuffer = <<>>,
              !.timers = @ \ {l.chunkBufferTimeout},
              !.chunkBufferTimeout = 0]

\* A callback that sets a timer whether or not one is held.
ArmTimerAlways(l, k) ==
    [l EXCEPT !.timers = @ \cup {k}, !.chunkBufferTimeout = k]

\* Lines 1366-1368: a timer is set unless the handle holds one.
ArmTimer(l, k) ==
    IF l.chunkBufferTimeout # 0 THEN l
    ELSE [l EXCEPT !.timers = @ \cup {k}, !.chunkBufferTimeout = k]

\* callback_function of the streamer runs with one more piece of text (lines
\* 1360-1369): the buffer is flushed at FlushLength characters, otherwise the
\* 50 ms timer is armed unless it is already.
StreamCallback(r, pieces, limit) ==
    /\ Task
    /\ pc[r] = "q_gen"
    /\ loc[r].callbacks < limit
    /\ \E text \in pieces :
        LET l == [loc[r] EXCEPT !.streamedText = @ \o text,
                                !.chunkBuffer = @ \o text,
                                !.callbacks = @ + 1]
            flush == Len(l.chunkBuffer) >= FlushLength
        IN /\ loc' = [loc EXCEPT ![r] = IF flush THEN Flushed(l)
                                        ELSE ArmTimer(l, l.callbacks)]
           /\ Post(r, IF flush THEN FlushChunkBuffer(l.chunkBuffer) ELSE <<>>)
    /\ UNCHANGED <<sent, req, pc, doneBefore, faults, envVars, storeVars, workerVars,
                   modelVars, conversationHistory>>

\* A 50 ms timer of line 1367 fires: flushChunkBuffer.  A model call that
\* threw has left the timer armed.
StreamTimer(r) ==
    /\ Task
    /\ \E t \in loc[r].timers :
        /\ Post(r, FlushChunkBuffer(loc[r].chunkBuffer))
        /\ loc' = [loc EXCEPT ![r] = Flushed([loc[r] EXCEPT !.timers = @ \ {t}])]
    /\ UNCHANGED <<sent, req, pc, doneBefore, faults, envVars, storeVars, workerVars,
                   modelVars, conversationHistory>>

\* The generation call returns or throws (lines 1376-1414).  A throw reaches
\* the outer catch (lines 1602-1611) past the flush of line 1385.
QueryGenerate(r) ==
    /\ Task
    /\ pc[r] = "q_gen"
    /\ \E ok \in Outcomes("model") :
        /\ Fault(ok)
        /\ IF ok
           THEN LET responseContent ==
                        IF loc[r].streamedText # <<>> THEN loc[r].streamedText
                        ELSE GeneratedText(Prompt, loc[r].streamedText)
                    l == Flushed(loc[r])
                IN /\ conversationHistory' = PushAssistant(conversationHistory, r)
                   /\ Post(r, FlushChunkBuffer(loc[r].chunkBuffer) \o
                              <<[Msg("QUERY_RESULT") EXCEPT
                                   !.response = CleanResponse(responseContent, Prompt)]>>)
                   /\ Goto(r, "done",
                           [NoLoc EXCEPT
                              !.chunkBuffer = l.chunkBuffer,
                              !.chunkBufferTimeout = l.chunkBufferTimeout,
                              !.timers = l.timers])
           ELSE /\ Post(r, <<ErrorText("QUERY", "generate")>>)
                /\ Goto(r, "done",
                        [NoLoc EXCEPT
                           !.chunkBuffer = loc[r].chunkBuffer,
                           !.chunkBufferTimeout = loc[r].chunkBufferTimeout,
                           !.timers = loc[r].timers])
                /\ UNCHANGED conversationHistory
    /\ UNCHANGED <<sent, req, doneBefore, envVars, storeVars, workerVars, modelVars>>

\* ---------------------------------------------------- GENERATE_SYNTHETIC
\* A GENERATE_SYNTHETIC message is delivered (lines 1487-1538): without a
\* model it calls pipeline() itself and awaits it.
RecvGenerateSynthetic ==
    \E r \in Req, v \in BOOLEAN :
        /\ Deliver(r, [NoReq EXCEPT !.type = "GENERATE_SYNTHETIC", !.valid = v])
        /\ IF ~v
           THEN /\ Post(r, <<ErrorMsg("GENERATE_SYNTHETIC")>>)
                /\ Return(r)
                /\ UNCHANGED loads
           ELSE IF ~model
           THEN /\ loads' = [loads EXCEPT ![r] = "running"]
                /\ Goto(r, "gs_load", NoLoc)
                /\ UNCHANGED out
           ELSE /\ Goto(r, "gs_gen", NoLoc)
                /\ UNCHANGED <<out, loads>>
        /\ UNCHANGED <<faults, envVars, storeVars, workerVars, model, isModelLoading,
                       modelLoadPromise, conversationHistory>>

\* The pipeline() call of line 1533 returns or throws.
SyntheticLoad(r) ==
    /\ Task
    /\ pc[r] = "gs_load"
    /\ \E ok \in Outcomes("model") :
        /\ Fault(ok)
        /\ loads' = [loads EXCEPT ![r] = IF ok THEN "ok" ELSE "failed"]
        /\ model' = (ok \/ model)
        /\ IF ok
           THEN Goto(r, "gs_gen", NoLoc) /\ UNCHANGED out
           ELSE Post(r, <<ErrorMsg("GENERATE_SYNTHETIC")>>) /\ Return(r)
    /\ UNCHANGED <<sent, req, doneBefore, envVars, storeVars, workerVars,
                   isModelLoading, modelLoadPromise, conversationHistory>>

\* A generation that records its answer in the conversation memory.
SyntheticGenerateRemembers(r) ==
    /\ Task
    /\ pc[r] = "gs_gen"
    /\ \E ok \in Outcomes("model") :
        /\ Fault(ok)
        /\ Post(r, <<IF ok THEN Msg("SYNTHETIC_GENERATED")
                     ELSE ErrorMsg("GENERATE_SYNTHETIC")>>)
        /\ conversationHistory' =
              IF ok THEN Append(conversationHistory, AssistantTurn(r))
              ELSE conversationHistory
    /\ Return(r)
    /\ UNCHANGED <<sent, req, doneBefore, envVars, storeVars, workerVars, modelVars>>

\* The generation call of line 1555 returns or throws (lines 1555-1592).
SyntheticGenerate(r) ==
    /\ Task
    /\ pc[r] = "gs_gen"
    /\ \E ok \in Outcomes("model") :
        /\ Fault(ok)
        /\ Post(r, <<IF ok THEN Msg("SYNTHETIC_GENERATED")
                     ELSE ErrorMsg("GENERATE_SYNTHETIC")>>)
    /\ Return(r)
    /\ UNCHANGED <<sent, req, doneBefore, envVars, storeVars, workerVars, modelVars,
                   conversationHistory>>

\* ------------------------------------------------------------- chunking
\* The chunks createDocuments yields for a text of `content` characters, each
\* as its length: windows of chunkSize characters that start every
\* chunkSize - chunkOverlap characters, the last one shorter.
CreateDocuments(content, splitter) ==
    LET size == splitter.chunkSize
        stride == splitter.chunkSize - splitter.chunkOverlap
        n == IF content <= size THEN 1
             ELSE 1 + ((content - size + stride - 1) \div stride)
    IN [k \in 1..n |->
          IF (k - 1) * stride + size <= content THEN size
          ELSE content - (k - 1) * stride]

\* Chunk settings a caller may send with INDEX_DOCUMENTS (0: not given).
DefaultSettings == {[chunkSize |-> 0, chunkOverlap |-> 0]}
ChunkSettings ==
    DefaultSettings \cup {[chunkSize |-> 1000, chunkOverlap |-> 100]}

\* docs.forEach that leaves the metadata as createDocuments made it.
TagSourceNone(docs, name) ==
    [k \in 1..Len(docs) |-> [len |-> docs[k], source |-> ""]]

\* Lines 1175-1183: every chunk gets metadata.source = file.name.
TagSource(docs, name) ==
    [k \in 1..Len(docs) |-> [len |-> docs[k], source |-> name]]

\* Splitters of small windows beside the default one and a large one.
Splitters ==
    {[chunkSize |-> DefaultChunkSize, chunkOverlap |-> DefaultChunkOverlap],
     [chunkSize |-> 1000, chunkOverlap |-> 100],
     [chunkSize |-> 5, chunkOverlap |-> 1],
     [chunkSize |-> 4, chunkOverlap |-> 0],
     [chunkSize |-> 3, chunkOverlap |-> 2]}

\* Files of 1..MaxContent characters, and of 400, 600 and 1000.
ChunkedFiles ==
    {[name |-> n, content |-> c] :
        n \in {"a", "b"}, c \in (1..MaxContent) \cup {400, 600, 1000}}

ChunkCalls ==
    {[fn |-> "createDocuments", file |-> f, splitter |-> sp, done |-> FALSE,
      result |-> <<>>] : f \in ChunkedFiles, sp \in Splitters}

\* Lines 1172-1183 for one file: the text is chunked and the chunks tagged.
CallCreateDocuments ==
    /\ call.fn = "createDocuments" /\ ~call.done
    /\ call' = [call EXCEPT
                  !.done = TRUE,
                  !.result = TagSource(CreateDocuments(call.file.content, call.splitter),
                                       call.file.name)]
    /\ UNCHANGED <<sent, req, pc, loc, out, doneBefore, faults, faulty, requests,
                   hook, epoch, idbConnections, deletePending, storeVars, workerVars,
                   modelVars, conversationHistory>>

InitChunk == InitProgram({}, 0, {<<>>}) /\ hook = NoHook /\ call \in ChunkCalls

SpecChunk == InitChunk /\ [][CallCreateDocuments]_vars

\* -------------------------------------------------------- INDEX_DOCUMENTS
\* A fileExists that finds no file.
FileExistsNever(rs, name, ok) == FALSE

\* fileExists (lines 699-729) on the rows its query returned; a query that
\* threw is caught and gives false.
FileExists(rs, name, ok) == ok /\ \E k \in 1..Len(rs) : rs[k].source = name

\* The first file at or after position i that line 1152 does not skip
\* (0: none is left).
NextFile(files, i) ==
    IF \E k \in i..Len(files) : files[k].content # 0
    THEN CHOOSE k \in i..Len(files) :
            /\ files[k].content # 0
            /\ \A m \in i..(k - 1) : files[m].content = 0
    ELSE 0

\* The for loop of lines 1151-1157 from file i on, after posting `pre`: it
\* skips empty files, then awaits fileExists for the next file, or, past the
\* last file, calls getStats (line 1198).  Without a connection fileExists
\* gives false and addDocuments throws (line 625).
IndexLoop(r, files, i, pre) ==
    LET k == NextFile(files, i) IN
    IF k = 0
    THEN StatsCall(r, "INDEX_DOCUMENTS", pre)
    ELSE IF globalDuckDBConnection
    THEN /\ Goto(r, "ix_exists", [NoLoc EXCEPT !.i = k])
         /\ Post(r, pre)
         /\ UNCHANGED isInitializing
    ELSE /\ Post(r, pre \o <<ErrorMsg("INDEX_DOCUMENTS")>>)
         /\ Return(r)
         /\ UNCHANGED isInitializing

\* Lines 1138-1149: the splitter after the settings of the payload.
UpdateSplitter(splitter, cs, co) ==
    IF cs # 0 \/ co # 0
    THEN [chunkSize |-> IF cs # 0 THEN cs ELSE DefaultChunkSize,
          chunkOverlap |-> IF co # 0 THEN co ELSE DefaultChunkOverlap]
    ELSE IF splitter = NoSplitter
    THEN [chunkSize |-> DefaultChunkSize, chunkOverlap |-> DefaultChunkOverlap]
    ELSE splitter

\* An INDEX_DOCUMENTS message is delivered (lines 1119-1157), its files one
\* of `batches` and its chunk settings one of `settings`.
RecvIndexDocuments(batches, settings) ==
    \E r \in Req, v \in BOOLEAN, fs \in batches, cfg \in settings :
        /\ Deliver(r, [NoReq EXCEPT !.type = "INDEX_DOCUMENTS", !.valid = v,
                                    !.files = fs,
                                    !.chunkSize = cfg.chunkSize,
                                    !.chunkOverlap = cfg.chunkOverlap])
        /\ IF ~vectorStore \/ ~isInitialized \/ ~v
           THEN /\ Post(r, <<ErrorMsg("INDEX_DOCUMENTS")>>)
                /\ Return(r)
                /\ UNCHANGED <<textSplitter, isInitializing>>
           ELSE /\ textSplitter' =
                       UpdateSplitter(textSplitter, cfg.chunkSize, cfg.chunkOverlap)
                /\ IndexLoop(r, fs, 1, <<>>)
        /\ UNCHANGED <<faults, envVars, storeVars, vectorStore, isInitialized,
                       modelVars, conversationHistory>>

\* fileExists returns (lines 1157-1186): an indexed file is reported as
\* skipped and the loop goes on; otherwise the file is chunked and
\* addDocuments awaits the embeddings of its chunks.
IndexExists(r) ==
    /\ Task
    /\ pc[r] = "ix_exists"
    /\ \E ok \in Outcomes("sql") :
        /\ Fault(ok)
        /\ LET file == req[r].files[loc[r].i] IN
           IF FileExists(rows, file.name, ok)
           THEN IndexLoop(r, req[r].files, loc[r].i + 1,
                          <<[Msg("INDEX_PROGRESS") EXCEPT !.fileName = file.name,
                                                          !.skipped = TRUE]>>)
           ELSE /\ Goto(r, "ix_embed",
                        [loc[r] EXCEPT
                            !.docs = CreateDocuments(file.content, textSplitter)])
                /\ UNCHANGED <<out, isInitializing>>
    /\ UNCHANGED <<sent, req, doneBefore, envVars, storeVars, vectorStore,
                   textSplitter, isInitialized, modelVars, conversationHistory>>

\* A catch that drops the error and returns.
IndexThrewSilent(r) ==
    /\ Post(r, <<>>)
    /\ Return(r)

\* A catch inside the loop: the error is dropped and the next file is taken.
IndexThrewContinue(r) == IndexLoop(r, req[r].files, loc[r].i + 1, <<>>)

\* A throw inside the try block of lines 1131-1204 reaches its catch.
IndexThrew(r) ==
    /\ Post(r, <<ErrorMsg("INDEX_DOCUMENTS")>>)
    /\ Return(r)

\* embedDocuments returns or throws (lines 629-641): the first INSERT is
\* awaited, or, with no chunk, saveToIndexedDB is called.
IndexEmbed(r) ==
    /\ Task
    /\ pc[r] = "ix_embed"
    /\ \E ok \in Outcomes("embed") :
        /\ Fault(ok)
        /\ IF ~ok
           THEN IndexThrew(r)
           ELSE /\ Goto(r, IF loc[r].docs = <<>> THEN "ix_snap" ELSE "ix_insert",
                        [loc[r] EXCEPT !.j = 1])
                /\ UNCHANGED out
    /\ UNCHANGED <<sent, req, doneBefore, envVars, storeVars, workerVars,
                   modelVars, conversationHistory>>

\* The INSERT of chunk j returns or throws (lines 631-645).
IndexInsert(r) ==
    /\ Task
    /\ pc[r] = "ix_insert"
    /\ \E ok \in Outcomes("sql") :
        /\ Fault(ok)
        /\ IF ~ok
           THEN /\ IndexThrew(r)
                /\ UNCHANGED <<rows, nextId>>
           ELSE /\ rows' = Append(rows,
                       [id |-> nextId,
                        source |-> req[r].files[loc[r].i].name,
                        chunk |-> loc[r].j,
                        len |-> loc[r].docs[loc[r].j],
                        by |-> r])
                /\ nextId' = nextId + 1
                /\ Goto(r, IF loc[r].j = Len(loc[r].docs) THEN "ix_snap"
                           ELSE "ix_insert",
                        [loc[r] EXCEPT !.j = @ + 1])
                /\ UNCHANGED out
    /\ UNCHANGED <<sent, req, doneBefore, envVars, globalDuckDB,
                   globalDuckDBConnection, globalDuckDBInitialized,
                   globalDuckDBInitializing, idb, openCount, connectCount,
                   workerVars, modelVars, conversationHistory>>

\* The rows as saveToIndexedDB stores them (lines 869-888): renumbered from 1.
Snapshot(rs) == [k \in 1..Len(rs) |-> [rs[k] EXCEPT !.id = k, !.by = 0]]

\* The SELECT of saveToIndexedDB returns or throws (lines 863-878); a throw
\* is caught and logged, and addDocuments returns (lines 1186-1195).
IndexSnapshot(r) ==
    /\ Task
    /\ pc[r] = "ix_snap"
    /\ \E ok \in Outcomes("sql") :
        /\ Fault(ok)
        /\ IF ok
           THEN /\ Goto(r, "ix_put", [loc[r] EXCEPT !.snap = Snapshot(rows)])
                /\ UNCHANGED <<out, isInitializing>>
           ELSE IndexLoop(r, req[r].files, loc[r].i + 1,
                          <<[Msg("INDEX_PROGRESS") EXCEPT
                               !.fileName = req[r].files[loc[r].i].name,
                               !.chunkCount = Len(loc[r].docs)]>>)
    /\ UNCHANGED <<sent, req, doneBefore, envVars, storeVars, vectorStore,
                   textSplitter, isInitialized, modelVars, conversationHistory>>

\* A saveToIndexedDB whose failure is thrown to the handler.
IndexPutThrows(r) ==
    /\ Task
    /\ pc[r] = "ix_put"
    /\ \E ok \in Outcomes("idb") :
        /\ Fault(ok)
        /\ idb' = IF ok THEN loc[r].snap ELSE idb
        /\ idbConnections' = (idbConnections \/ ok)
        /\ IF ok
           THEN IndexLoop(r, req[r].files, loc[r].i + 1,
                          <<[Msg("INDEX_PROGRESS") EXCEPT
                               !.fileName = req[r].files[loc[r].i].name,
                               !.chunkCount = Len(loc[r].docs)]>>)
           ELSE IndexThrew(r) /\ UNCHANGED isInitializing
    /\ UNCHANGED <<sent, req, doneBefore, faulty, requests, call, hook, epoch, deletePending,
                   globalDuckDB,
                   globalDuckDBConnection, globalDuckDBInitialized,
                   globalDuckDBInitializing, rows, nextId, openCount,
                   connectCount, vectorStore, textSplitter, isInitialized,
                   modelVars, conversationHistory>>

\* The IndexedDB transaction of saveToIndexedDB completes or fails (lines
\* 878-901); addDocuments returns, the progress is posted and the loop goes
\* on.  The connection the save opened is never closed.
IndexPut(r) ==
    /\ Task
    /\ pc[r] = "ix_put"
    /\ \E ok \in Outcomes("idb") :
        /\ Fault(ok)
        /\ idb' = IF ok THEN loc[r].snap ELSE idb
        /\ idbConnections' = (idbConnections \/ ok)
    /\ IndexLoop(r, req[r].files, loc[r].i + 1,
                 <<[Msg("INDEX_PROGRESS") EXCEPT
                      !.fileName = req[r].files[loc[r].i].name,
                      !.chunkCount = Len(loc[r].docs)]>>)
    /\ UNCHANGED <<sent, req, doneBefore, faulty, requests, call, hook, epoch, deletePending,
                   globalDuckDB,
                   globalDuckDBConnection, globalDuckDBInitialized,
                   globalDuckDBInitializing, rows, nextId, openCount,
                   connectCount, vectorStore, textSplitter, isInitialized,
                   modelVars, conversationHistory>>

\* --------------------------------------------------------- CLEAR_DATABASE
\* A CLEAR_DATABASE message is delivered (lines 1452-1465, 794-802).
RecvClearDatabase ==
    \E r \in Req :
        /\ Deliver(r, [NoReq EXCEPT !.type = "CLEAR_DATABASE"])
        /\ IF ~vectorStore \/ ~isInitialized
           THEN /\ Post(r, <<ErrorMsg("CLEAR_DATABASE")>>)
                /\ Return(r)
                /\ UNCHANGED <<isInitializing, conversationHistory>>
           ELSE IF globalDuckDBConnection
           THEN /\ Goto(r, "cl_delete", NoLoc)
                /\ UNCHANGED <<out, isInitializing, conversationHistory>>
           ELSE /\ conversationHistory' = <<>>
                /\ StatsCall(r, "CLEAR_DATABASE", <<>>)
        /\ UNCHANGED <<faults, envVars, storeVars, vectorStore, textSplitter,
                       isInitialized, modelVars>>

\* A clearDatabase whose DELETE leaves the rows.
ClearDeleteKeeps(r) ==
    /\ Task
    /\ pc[r] = "cl_delete"
    /\ \E ok \in Outcomes("sql") :
        /\ Fault(ok)
        /\ IF ok
           THEN /\ Goto(r, "cl_sequence", NoLoc)
                /\ UNCHANGED out
           ELSE /\ Post(r, <<ErrorMsg("CLEAR_DATABASE")>>)
                /\ Return(r)
    /\ UNCHANGED <<sent, req, doneBefore, envVars, globalDuckDB,
                   globalDuckDBConnection, globalDuckDBInitialized,
                   globalDuckDBInitializing, rows, nextId, idb, openCount,
                   connectCount, workerVars, modelVars, conversationHistory>>

\* DELETE FROM returns or throws (lines 802-810); then the sequence is
\* restarted.
ClearDelete(r) ==
    /\ Task
    /\ pc[r] = "cl_delete"
    /\ \E ok \in Outcomes("sql") :
        /\ Fault(ok)
        /\ IF ok
           THEN /\ rows' = <<>>
                /\ Goto(r, "cl_sequence", NoLoc)
                /\ UNCHANGED out
           ELSE /\ Post(r, <<ErrorMsg("CLEAR_DATABASE")>>)
                /\ Return(r)
                /\ UNCHANGED rows
    /\ UNCHANGED <<sent, req, doneBefore, envVars, globalDuckDB,
                   globalDuckDBConnection, globalDuckDBInitialized,
                   globalDuckDBInitializing, nextId, idb, openCount,
                   connectCount, workerVars, modelVars, conversationHistory>>

\* ALTER SEQUENCE returns or throws (lines 806-813); a throw is ignored.
\* Then indexedDB.deleteDatabase is requested.
ClearSequence(r) ==
    /\ Task
    /\ pc[r] = "cl_sequence"
    /\ \E ok \in Outcomes("sql") :
        /\ Fault(ok)
        /\ nextId' = IF ok THEN 1 ELSE nextId
    /\ Goto(r, "cl_idb", NoLoc)
    /\ UNCHANGED <<sent, req, out, doneBefore, envVars, globalDuckDB,
                   globalDuckDBConnection, globalDuckDBInitialized,
                   globalDuckDBInitializing, rows, idb, openCount,
                   connectCount, workerVars, modelVars, conversationHistory>>

\* A CLEAR_DATABASE whose failed deleteDatabase empties the memory all the
\* same.
ClearIndexedDBForgets(r) ==
    /\ Task
    /\ pc[r] = "cl_idb"
    /\ \E ok \in Outcomes("idb"), blocked \in {FALSE, idbConnections} :
        /\ Fault(ok)
        /\ ok \/ ~blocked
        /\ idb' = IF ok /\ ~blocked THEN <<>> ELSE idb
        /\ deletePending' = (deletePending \/ blocked)
        /\ conversationHistory' = <<>>
        /\ IF ok
           THEN StatsCall(r, "CLEAR_DATABASE", <<>>)
           ELSE /\ Post(r, <<ErrorText("CLEAR_DATABASE", "deleteDatabase")>>)
                /\ Return(r)
                /\ UNCHANGED isInitializing
    /\ UNCHANGED <<sent, req, doneBefore, faulty, requests, call, hook, epoch, idbConnections,
                   globalDuckDB,
                   globalDuckDBConnection, globalDuckDBInitialized,
                   globalDuckDBInitializing, rows, nextId, openCount,
                   connectCount, vectorStore, textSplitter, isInitialized,
                   modelVars>>

\* The deleteDatabase request ends (lines 813-831, 1465-1473): success,
\* error (thrown), or blocked by a connection that is still open (resolved
\* 100 ms later, nothing deleted; the request stays pending).
ClearIndexedDB(r) ==
    /\ Task
    /\ pc[r] = "cl_idb"
    /\ \E ok \in Outcomes("idb"), blocked \in {FALSE, idbConnections} :
        /\ Fault(ok)
        /\ ok \/ ~blocked
        /\ idb' = IF ok /\ ~blocked THEN <<>> ELSE idb
        /\ deletePending' = (deletePending \/ blocked)
        /\ IF ok
           THEN /\ conversationHistory' = <<>>
                /\ StatsCall(r, "CLEAR_DATABASE", <<>>)
           ELSE /\ Post(r, <<ErrorText("CLEAR_DATABASE", "deleteDatabase")>>)
                /\ Return(r)
                /\ UNCHANGED <<isInitializing, conversationHistory>>
    /\ UNCHANGED <<sent, req, doneBefore, faulty, requests, call, hook, epoch, idbConnections,
                   globalDuckDB,
                   globalDuckDBConnection, globalDuckDBInitialized,
                   globalDuckDBInitializing, rows, nextId, openCount,
                   connectCount, vectorStore, textSplitter, isInitialized,
                   modelVars>>

\* ---------------------------------------------------------- the process
\* The worker is terminated and a new one is created (at most `limit`
\* processes in a run): the module is evaluated afresh and the handlers of
\* the old process are gone.  IndexedDB outlives the process: a transaction
\* in flight may have committed, and a pending deleteDatabase may go through
\* once the connections are closed.  With `idle` the worker is terminated
\* only while no handler is suspended.
Restart(limit, idle) ==
    /\ epoch < limit
    /\ sent >= 1
    /\ idle => \A r \in Req : pc[r] \in {"idle", "done", "killed"}
    /\ epoch' = epoch + 1
    /\ pc' = [r \in Req |-> IF pc[r] \in {"idle", "done"} THEN pc[r] ELSE "killed"]
    /\ loc' = [r \in Req |-> NoLoc]
    /\ loads' = [r \in Req |-> IF loads[r] = "running" THEN "killed" ELSE loads[r]]
    /\ idb' \in {idb} \cup {loc[r].snap : r \in {q \in Req : pc[q] = "ix_put"}}
                  \cup (IF deletePending THEN {<<>>} ELSE {})
    /\ idbConnections' = FALSE
    /\ deletePending' = FALSE
    /\ globalDuckDB' = FALSE
    /\ globalDuckDBConnection' = FALSE
    /\ globalDuckDBInitialized' = FALSE
    /\ globalDuckDBInitializing' = FALSE
    /\ rows' = <<>>
    /\ nextId' = 1
    /\ openCount' = 0
    /\ connectCount' = 0
    /\ vectorStore' = FALSE
    /\ textSplitter' = NoSplitter
    /\ isInitialized' = FALSE
    /\ isInitializing' = FALSE
    /\ model' = FALSE
    /\ isModelLoading' = FALSE
    /\ modelLoadPromise' = 0
    /\ conversationHistory' = <<>>
    /\ UNCHANGED <<sent, req, out, doneBefore, faults, faulty, requests, call, hook>>

\* ------------------------------------------------------- specifications
InitSteps(r) ==
    \/ PollEnd(r)
    \/ InitBundle(r)
    \/ InitInstantiate(r)
    \/ InitOpen(r)
    \/ InitConnect(r)
    \/ InitSchema(r)
    \/ InitLoad(r)
    \/ StatsCount(r)
    \/ StatsMeta(r)

NextInit ==
    \/ RecvInit
    \/ RecvGetStats
    \/ \E r \in Req :
        \/ InitSteps(r)

SpecInit == InitEnv({"duckdb", "idb"}, InitRequests, PriorSnapshots) /\ [][NextInit]_vars

NextModel ==
    \/ RecvInit
    \/ RecvLoadModel
    \/ RecvQuery({<<>>})
    \/ RecvGenerateSynthetic
    \/ \E r \in Req :
        \/ InitSteps(r)
        \/ PipelineSettle(r)
        \/ LoadModelResume(r)
        \/ QueryJoinResume(r)
        \/ QueryOwnResume(r)
        \/ QueryLoadTimeout(r)
        \/ QuerySearch(r)
        \/ QueryGenerate(r)
        \/ SyntheticLoad(r)
        \/ SyntheticGenerate(r)

SpecModel == InitEnv({"model"}, ModelRequests, {<<>>}) /\ [][NextModel]_vars

\* Runs of GENERATE_SYNTHETIC beside INIT and QUERY, over a store that a
\* previous process may have filled.
NextSynthetic ==
    \/ RecvInit
    \/ RecvQuery({<<>>})
    \/ RecvGenerateSynthetic
    \/ \E r \in Req :
        \/ InitSteps(r)
        \/ PipelineSettle(r)
        \/ QueryJoinResume(r)
        \/ QueryOwnResume(r)
        \/ QueryLoadTimeout(r)
        \/ QuerySearch(r)
        \/ QueryGenerate(r)
        \/ SyntheticLoad(r)
        \/ SyntheticGenerate(r)

SpecSynthetic ==
    InitEnv({"model"}, SyntheticRequests, PriorSnapshots) /\ [][NextSynthetic]_vars

NextIndex ==
    \/ RecvInit
    \/ RecvIndexDocuments(Batches, DefaultSettings)
    \/ \E r \in Req :
        \/ InitSteps(r)
        \/ IndexExists(r)
        \/ IndexEmbed(r)
        \/ IndexInsert(r)
        \/ IndexSnapshot(r)
        \/ IndexPut(r)

SpecIndex == InitEnv({"sql", "embed", "idb"}, IndexRequests, PriorSnapshots) /\ [][NextIndex]_vars

\* Runs of INDEX_DOCUMENTS in which no external call throws.
SpecOverlap == InitEnv({}, OverlapRequests, {<<>>}) /\ [][NextIndex]_vars

NextQuery ==
    \/ RecvInit
    \/ RecvLoadModel
    \/ RecvQuery(ChatHistories)
    \/ RecvClearMemory
    \/ \E r \in Req :
        \/ InitSteps(r)
        \/ PipelineSettle(r)
        \/ LoadModelResume(r)
        \/ QueryJoinResume(r)
        \/ QueryOwnResume(r)
        \/ QueryLoadTimeout(r)
        \/ QuerySearch(r)
        \/ QueryGenerate(r)

SpecQuery == InitEnv({"model"}, QueryRequests, {<<>>}) /\ [][NextQuery]_vars

\* Runs that look at the answers of QUERY: the model's streamer is silent.
NextAnswer ==
    \/ RecvInit
    \/ RecvLoadModel
    \/ RecvQuery({<<>>})
    \/ \E r \in Req :
        \/ InitSteps(r)
        \/ PipelineSettle(r)
        \/ LoadModelResume(r)
        \/ QueryJoinResume(r)
        \/ QueryOwnResume(r)
        \/ QueryLoadTimeout(r)
        \/ QuerySearch(r)
        \/ QueryGenerate(r)

SpecAnswer ==
    InitEnv({"model", "embed"}, AnswerRequests, AnswerSnapshots) /\ [][NextAnswer]_vars

\* The steps of the handlers of NextAnswer: continuations, timers, and the
\* calls of the store and of the loaded model.  PipelineSettle is not among
\* them: pipeline() downloads the model and may never settle.
HandlerSteps(r) ==
    \/ InitSteps(r)
    \/ LoadModelResume(r)
    \/ QueryJoinResume(r)
    \/ QueryOwnResume(r)
    \/ QueryLoadTimeout(r)
    \/ QuerySearch(r)
    \/ QueryGenerate(r)

\* Every queued continuation runs, every timer fires, and every call but
\* the model download returns or throws.
SpecWait == SpecAnswer /\ WF_vars(\E r \in Req : HandlerSteps(r))

\* Runs in which the streamer calls back up to MaxCallbacks times per QUERY.
NextStream ==
    \/ RecvInit
    \/ RecvQuery({<<>>})
    \/ \E r \in Req :
        \/ InitSteps(r)
        \/ PipelineSettle(r)
        \/ QueryOwnResume(r)
        \/ QueryLoadTimeout(r)
        \/ QuerySearch(r)
        \/ StreamCallback(r, Pieces, MaxCallbacks)
        \/ StreamTimer(r)
        \/ QueryGenerate(r)

SpecStream == InitEnv({"model"}, StreamRequests, {<<>>}) /\ [][NextStream]_vars

\* Runs in which only IndexedDB may fail.
SpecSave == InitEnv({"idb"}, SaveRequests, PriorSnapshots) /\ [][NextIndex]_vars

\* Runs over several worker processes that share IndexedDB, in which the
\* store is indexed and cleared and no call fails.
NextDurable ==
    \/ RecvInit
    \/ RecvIndexDocuments({<<FileB>>}, DefaultSettings)
    \/ RecvClearDatabase
    \/ Restart(MaxProcesses, TRUE)
    \/ \E r \in Req :
        \/ InitSteps(r)
        \/ IndexExists(r)
        \/ IndexEmbed(r)
        \/ IndexInsert(r)
        \/ IndexSnapshot(r)
        \/ IndexPut(r)
        \/ ClearDelete(r)
        \/ ClearSequence(r)
        \/ ClearIndexedDB(r)

SpecDurable == InitEnv({}, DurableRequests, {<<>>}) /\ [][NextDurable]_vars

\* Runs over several worker processes that share IndexedDB, in which the
\* store is indexed and IndexedDB may fail.
NextRestore ==
    \/ RecvInit
    \/ RecvIndexDocuments({<<FileB>>}, DefaultSettings)
    \/ Restart(MaxProcesses, FALSE)
    \/ \E r \in Req :
        \/ InitSteps(r)
        \/ IndexExists(r)
        \/ IndexEmbed(r)
        \/ IndexInsert(r)
        \/ IndexSnapshot(r)
        \/ IndexPut(r)

SpecRestore == InitEnv({"idb"}, RestoreRequests, {<<>>}) /\ [][NextRestore]_vars

\* Runs that clear the store: one process, no failing call.
NextClear ==
    \/ RecvInit
    \/ RecvIndexDocuments({<<FileB>>}, DefaultSettings)
    \/ RecvClearDatabase
    \/ RecvGetStats
    \/ RecvQuery({<<>>})
    \/ \E r \in Req :
        \/ InitSteps(r)
        \/ IndexExists(r)
        \/ IndexEmbed(r)
        \/ IndexInsert(r)
        \/ IndexSnapshot(r)
        \/ IndexPut(r)
        \/ ClearDelete(r)
        \/ ClearSequence(r)
        \/ ClearIndexedDB(r)
        \/ PipelineSettle(r)
        \/ QueryOwnResume(r)
        \/ QueryLoadTimeout(r)
        \/ QuerySearch(r)
        \/ QueryGenerate(r)

SpecClear == InitEnv({}, ClearRequests, PriorSnapshots) /\ [][NextClear]_vars

\* Every step a suspended handler or a running load can take.
Steps(r) ==
    \/ InitSteps(r)
    \/ PipelineSettle(r)
    \/ LoadModelResume(r)
    \/ QueryJoinResume(r)
    \/ QueryOwnResume(r)
    \/ QueryLoadTimeout(r)
    \/ QuerySearch(r)
    \/ QueryGenerate(r)
    \/ SyntheticLoad(r)
    \/ SyntheticGenerate(r)
    \/ IndexExists(r)
    \/ IndexEmbed(r)
    \/ IndexInsert(r)
    \/ IndexSnapshot(r)
    \/ IndexPut(r)
    \/ ClearDelete(r)
    \/ ClearSequence(r)
    \/ ClearIndexedDB(r)

Progress == \E r \in Req : Steps(r)

Next ==
    \/ RecvInit
    \/ RecvLoadModel
    \/ RecvIndexDocuments({<<FileB>>}, DefaultSettings)
    \/ RecvQuery({<<>>})
    \/ RecvClearMemory
    \/ RecvGetStats
    \/ RecvClearDatabase
    \/ RecvGenerateSynthetic
    \/ RecvUnknown
    \/ Progress

Spec == InitEnv(Services, AllRequests, {<<>>}) /\ [][Next]_vars

\* Every external call eventually returns or throws, every timer fires and
\* every queued continuation runs.
FairSpec == Spec /\ WF_vars(Progress)

\* ------------------------------------------------------------ useRAG hook
\* The hook creates the worker in an effect that runs once (useRAG.ts lines
\* 92-262).  Its handlers are tasks of the page's event loop; a state update
\* is committed before the next handler runs.  The text of a chat message is
\* the number of the request that carries or answers it (0 for the notice
\* of line 364).

Last(q) == q[Len(q)]

\* Everything but the hook.
workerState ==
    <<sent, req, pc, loc, out, doneBefore, faults, faulty, requests, call,
      epoch, idbConnections, deletePending, storeVars, workerVars, modelVars,
      conversationHistory>>

\* The state after the effect has run (lines 97-104, 240-247): the worker
\* exists, its READY (ragWorker.ts line 967) is on its way, the 500 ms timer
\* is set.
Mounted ==
    [NoHook EXCEPT !.worker = TRUE, !.readyPosted = TRUE, !.timeoutId = TRUE]

InitMounted(F, n, P) == InitProgram(F, n, P) /\ call = NoCall /\ hook = Mounted

HookMsg(t) == [type |-> t, query |-> 0, chatHistory |-> <<>>]

\* workerRef.current.postMessage(m), behind its test of workerRef.current.
PostMessage(h, m) ==
    IF h.worker THEN [h EXCEPT !.posted = Append(@, m)] ELSE h

\* Lines 114-117 and 242-246: INIT is sent unless the worker is initialized
\* or an INIT has been sent.
SendInit(h) ==
    IF h.worker /\ ~h.isInitializedRef /\ ~h.initSentRef
    THEN PostMessage([h EXCEPT !.initSentRef = TRUE], HookMsg("INIT"))
    ELSE h

\* READY is handled (lines 111-119).
OnReady ==
    /\ hook.worker /\ hook.readyPosted
    /\ hook' = SendInit([hook EXCEPT !.readyPosted = FALSE])
    /\ UNCHANGED workerState

\* The 500 ms timer fires (lines 240-247).
OnTimeout ==
    /\ hook.timeoutId
    /\ hook' = SendInit([hook EXCEPT !.timeoutId = FALSE])
    /\ UNCHANGED workerState

\* An ERROR case that also forgets that INIT was sent.
OnErrorResets(h, m, r) ==
    [h EXCEPT !.isQuerying = FALSE,
              !.isModelLoading = FALSE,
              !.modelLoadError = TRUE,
              !.isInitializedRef = IF m.errorType = "INIT" THEN FALSE ELSE @,
              !.initSentRef = FALSE,
              !.chatHistory = IF m.errorType = "QUERY"
                              THEN Append(@, AssistantTurn(r)) ELSE @]

\* case 'ERROR' (lines 212-227), the message posted by handler r.
OnError(h, m, r) ==
    [h EXCEPT !.isQuerying = FALSE,
              !.isModelLoading = FALSE,
              !.modelLoadError = TRUE,
              !.isInitializedRef = IF m.errorType = "INIT" THEN FALSE ELSE @,
              !.chatHistory = IF m.errorType = "QUERY"
                              THEN Append(@, AssistantTurn(r)) ELSE @]

\* Lines 176-184 and 199-205: the content of the last message is replaced
\* when that message is the assistant's.
ReplaceLast(history, r) ==
    IF history # <<>> /\ Last(history).role = "assistant"
    THEN [history EXCEPT ![Len(history)] = AssistantTurn(r)]
    ELSE history

\* case 'QUERY_CHUNK' (lines 169-185).
OnQueryChunk(h, m, r) ==
    [h EXCEPT !.streamingResponseRef = @ \o m.chunk,
              !.chatHistory = IF @ # <<>> /\ Last(@).role = "assistant"
                              THEN ReplaceLast(@, r)
                              ELSE Append(@, AssistantTurn(r))]

\* case 'QUERY_RESULT' (lines 187-210).
OnQueryResult(h, m, r) ==
    IF m.isFallback \/ h.streamingResponseRef = <<>>
    THEN [h EXCEPT !.isQuerying = FALSE,
                   !.chatHistory = Append(@, AssistantTurn(r))]
    ELSE [h EXCEPT !.isQuerying = FALSE,
                   !.chatHistory = ReplaceLast(@, r),
                   !.streamingResponseRef = <<>>]

\* The switch of worker.onmessage (lines 121-228) for message m of handler r.
OnWorkerMessage(h, m, r) ==
    CASE m.type = "INIT_SUCCESS" ->
           PostMessage([h EXCEPT !.isInitializedRef = TRUE, !.initSentRef = FALSE],
                       HookMsg("GET_STATS"))
      [] m.type = "MODEL_LOADED" -> [h EXCEPT !.isModelLoading = FALSE]
      [] m.type = "INDEX_COMPLETE" -> PostMessage(h, HookMsg("GET_STATS"))
      [] m.type = "STATS_RESULT" -> [h EXCEPT !.totalChunks = m.stats.totalChunks]
      [] m.type = "DATABASE_CLEARED" ->
           [h EXCEPT !.totalChunks = m.stats.totalChunks,
                     !.chatHistory = <<>>,
                     !.streamingResponseRef = <<>>]
      [] m.type = "QUERY_CHUNK" -> OnQueryChunk(h, m, r)
      [] m.type = "QUERY_RESULT" -> OnQueryResult(h, m, r)
      [] m.type = "ERROR" -> OnError(h, m, r)
      [] OTHER -> h

\* worker.onmessage runs for the next message of handler r (lines 107-229).
\* The messages of one handler arrive in the order they were posted.
OnMessage(r) ==
    /\ hook.worker
    /\ hook.seen[r] < Len(out[r])
    /\ hook' = OnWorkerMessage([hook EXCEPT !.seen[r] = @ + 1],
                               out[r][hook.seen[r] + 1], r)
    /\ UNCHANGED workerState

\* The next message the worker takes up is the one the hook posted next.
PostedNext(t) ==
    /\ sent < Len(hook.posted)
    /\ hook.posted[sent + 1].type = t

WorkerRecvInit == PostedNext("INIT") /\ RecvInit

WorkerRecvGetStats == PostedNext("GET_STATS") /\ RecvGetStats

\* The handshake: the hook, and the worker with its INIT and GET_STATS.
NextHandshake ==
    \/ OnReady
    \/ OnTimeout
    \/ WorkerRecvInit
    \/ WorkerRecvGetStats
    \/ \E r \in Req :
        \/ OnMessage(r)
        \/ InitBundle(r)
        \/ InitInstantiate(r)
        \/ InitOpen(r)
        \/ InitConnect(r)
        \/ InitSchema(r)
        \/ InitLoad(r)
        \/ StatsCount(r)
        \/ StatsMeta(r)

SpecHandshake ==
    InitMounted({"duckdb", "sql", "idb"}, HandshakeRequests, PriorSnapshots)
    /\ [][NextHandshake]_vars

\* chatHistory.slice(0, -1) (line 403).
SliceAllButLast(history) == SubSeq(history, 1, Len(history) - 1)

\* queryRAG runs with text in chatInput (lines 351-406), ragStatus one of
\* `statuses`.  chatHistory is the state of the render the function was
\* created in: addMessage (lines 267-269) queues an update and the constant
\* keeps its value.  The query is named by the number of its QUERY message.
QueryRAG(statuses) ==
    \E ragStatus \in statuses :
        LET load == ~hook.isModelLoading /\ ~hook.modelLoadError
            q == Len(hook.posted) + (IF load THEN 2 ELSE 1)
            h1 == [hook EXCEPT !.chatHistory = Append(@, UserTurn(q)),
                               !.isQuerying = TRUE,
                               !.streamingResponseRef = <<>>,
                               !.isModelLoading = load \/ @]
            h2 == IF load THEN PostMessage(h1, HookMsg("LOAD_MODEL")) ELSE h1
        IN
        /\ ~hook.isQuerying
        /\ hook.totalChunks > 0 \/ ragStatus = "Knowledge Base Ready"
        /\ IF ~hook.worker \/ ~hook.isInitializedRef
           THEN /\ Len(hook.chatHistory) < MaxNotices
                /\ hook' = [hook EXCEPT !.chatHistory = Append(@, AssistantTurn(0))]
           ELSE /\ q <= requests
                /\ hook' = PostMessage(h2, [HookMsg("QUERY") EXCEPT
                                              !.query = q,
                                              !.chatHistory =
                                                  SliceAllButLast(hook.chatHistory)])
        /\ UNCHANGED workerState

\* clearChat (lines 411-420).
ClearChat ==
    /\ Len(hook.posted) < requests
    /\ hook.chatHistory # <<>>
    /\ hook' = PostMessage([hook EXCEPT !.chatHistory = <<>>,
                                        !.streamingResponseRef = <<>>],
                           HookMsg("CLEAR_MEMORY"))
    /\ UNCHANGED workerState

WorkerRecvLoadModel == PostedNext("LOAD_MODEL") /\ RecvLoadModel

WorkerRecvClearMemory == PostedNext("CLEAR_MEMORY") /\ RecvClearMemory

\* The QUERY the worker takes up carries the chatHistory the hook posted.
WorkerRecvQuery ==
    /\ PostedNext("QUERY")
    /\ RecvQuery({hook.posted[sent + 1].chatHistory})
    /\ req'[sent + 1].valid

RagStatuses == {"Idle", "Knowledge Base Ready"}

\* A chat: the hook, and the worker with the handlers of the messages the
\* hook posts for it.  No call fails, so that LOAD_MODEL, which the hook
\* posts ahead of its first QUERY, has started the load when a QUERY comes.
NextChat ==
    \/ OnReady
    \/ OnTimeout
    \/ QueryRAG(RagStatuses)
    \/ ClearChat
    \/ WorkerRecvInit
    \/ WorkerRecvGetStats
    \/ WorkerRecvLoadModel
    \/ WorkerRecvQuery
    \/ WorkerRecvClearMemory
    \/ \E r \in Req :
        \/ OnMessage(r)
        \/ InitBundle(r)
        \/ InitInstantiate(r)
        \/ InitOpen(r)
        \/ InitConnect(r)
        \/ InitSchema(r)
        \/ InitLoad(r)
        \/ StatsCount(r)
        \/ StatsMeta(r)
        \/ PipelineSettle(r)
        \/ LoadModelResume(r)
        \/ QueryJoinResume(r)
        \/ QuerySearch(r)
        \/ QueryGenerate(r)

SpecChat == InitMounted({}, ChatRequests, {<<>>}) /\ [][NextChat]_vars

\* ---------------------------------------------------------------- claims
\* The awaits of the try block of initialize() (lines 541-604).
InitializePcs ==
    {"init_bundle", "init_instantiate", "init_open", "init_connect", "init_schema",
     "init_load"}

Initializers == {r \in Req : pc[r] \in InitializePcs}

\* C3: over any interleaving of INIT requests the storage engine is opened
\* at most once and connected at most once, at most one handler is inside
\* the initialization, and an INIT delivered while another handler is inside
\* the initialization waits for it (it is suspended in the polling loop of
\* lines 985-1005) instead of starting a second one.
C3_OpenedOnce ==
    /\ [](openCount <= 1 /\ connectCount <= 1 /\ Cardinality(Initializers) <= 1)
    /\ [][\A r \in Req :
            (pc[r] = "idle" /\ pc'[r] # "idle" /\ req'[r].type = "INIT"
             /\ Initializers # {})
            => (pc'[r] = "init_wait" /\ openCount' = openCount
                /\ connectCount' = connectCount)]_vars

\* A second INIT waits in its polling loop while the first, having opened the
\* engine, awaits connect().
C3_Witness ==
    \E r, s \in Req :
        /\ req[r].type = "INIT" /\ pc[r] = "init_connect"
        /\ req[s].type = "INIT" /\ pc[s] = "init_wait"
        /\ openCount = 1 /\ connectCount = 1

\* An INIT ended in ERROR because instantiate(), open() or connect() threw.
EngineFailed(r) ==
    /\ req[r].type = "INIT"
    /\ pc[r] = "done"
    /\ \E e \in {"instantiate", "open", "connect"} : out[r] = <<ErrorText("INIT", e)>>

\* C4: if an INIT ended in ERROR because the storage engine failed to
\* instantiate, open or connect, a later INIT, issued after that handler has
\* returned and when no call of the engine fails any more, ends in
\* INIT_SUCCESS.
C4_RetrySucceeds ==
    \A r, s \in Req :
        (/\ EngineFailed(r)
         /\ req[s].type = "INIT" /\ pc[s] = "done" /\ r \in doneBefore[s]
         /\ faults = MaxFaults)
        => out[s][1].type = "INIT_SUCCESS"

\* The retry of C4 has been made: an INIT failed in the engine and a later
\* INIT has returned, with an ERROR.
C4_Witness ==
    \E r, s \in Req :
        /\ EngineFailed(r)
        /\ req[s].type = "INIT" /\ pc[s] = "done" /\ r \in doneBefore[s]
        /\ out[s] = <<ErrorText("INIT", "Database exists but connection is missing")>>

\* C5: at any time at most one pipeline() load of the generation model is
\* in flight, for every interleaving of LOAD_MODEL, QUERY and
\* GENERATE_SYNTHETIC requests.
C5_OneLoadInFlight == Cardinality({l \in Req : loads[l] = "running"}) <= 1

\* LOAD_MODEL s was delivered while the load that LOAD_MODEL r started was
\* in flight (r awaits its load until it has settled).
ArrivedDuringLoad(r, s) ==
    /\ req[r].type = "LOAD_MODEL" /\ req[s].type = "LOAD_MODEL"
    /\ r < s /\ pc[s] # "idle"
    /\ loads[r] # "none" /\ r \notin doneBefore[s]

\* C6: when a second LOAD_MODEL arrives while the load started by a first
\* LOAD_MODEL is in flight, the second starts no load of its own, and if the
\* load succeeds each of the two requests posts exactly one MODEL_LOADED.
C6_OneLoadTwoAnswers ==
    \A r, s \in Req :
        ArrivedDuringLoad(r, s) =>
            /\ loads[s] = "none"
            /\ (loads[r] = "ok" /\ pc[r] = "done" /\ pc[s] = "done")
               => (out[r] = <<Msg("MODEL_LOADED")>> /\ out[s] = <<Msg("MODEL_LOADED")>>)

\* Two LOAD_MODEL requests shared one load and both were answered.
C6_Witness ==
    \E r, s \in Req :
        /\ ArrivedDuringLoad(r, s)
        /\ loads[r] = "ok" /\ loads[s] = "none"
        /\ out[r] = <<Msg("MODEL_LOADED")>> /\ out[s] = <<Msg("MODEL_LOADED")>>

\* C7: conversation memory never holds more than 10 turns.
C7_MemoryBound == Len(conversationHistory) <= MemoryLimit

\* Handlers of the listed request types that are suspended at an await.
Suspended ==
    {r \in Req :
        /\ req[r].type \in {"INDEX_DOCUMENTS", "QUERY", "CLEAR_DATABASE",
                            "CLEAR_MEMORY", "GET_STATS"}
        /\ pc[r] \notin {"idle", "done"}}

\* C2: no two handlers among INDEX_DOCUMENTS, QUERY, CLEAR_DATABASE,
\* CLEAR_MEMORY and GET_STATS are suspended at an await at the same time.
C2_OneSuspended == Cardinality(Suspended) <= 1

\* The files of a batch that line 1152 does not skip, in order.
NonEmpty(files) == SelectSeq(files, LAMBDA f : f.content # 0)

IsIndex(r) == req[r].type = "INDEX_DOCUMENTS"

\* The request ended with INDEX_COMPLETE and the stats.
IndexCompleted(r) ==
    /\ IsIndex(r) /\ pc[r] = "done" /\ Len(out[r]) >= 2
    /\ out[r][Len(out[r]) - 1].type = "INDEX_COMPLETE"

\* s is a second run of the files of r: it was sent after r had completed;
\* both have returned, no external call threw, and no other indexing request
\* was handled between the delivery of r and the return of s.
SecondRun(r, s) ==
    /\ IndexCompleted(r) /\ IsIndex(s) /\ pc[s] = "done"
    /\ r \in doneBefore[s]
    /\ req[s].valid /\ req[s].files = req[r].files
    /\ faults = 0
    /\ \A t \in Req \ {r, s} :
          IsIndex(t) => (t \in doneBefore[r] \/ s \in doneBefore[t])

SkippedProgress(name) ==
    [Msg("INDEX_PROGRESS") EXCEPT !.fileName = name, !.skipped = TRUE]

\* The chunk numbers of the rows handler r inserted for file `name`.
ChunksBy(r, name) ==
    {rows[k].chunk : k \in {k \in 1..Len(rows) :
                                rows[k].by = r /\ rows[k].source = name}}

SentFiles == {f \in UNION {{b[k] : k \in 1..Len(b)} : b \in Batches} : f.content # 0}

DefaultSplitter ==
    [chunkSize |-> DefaultChunkSize, chunkOverlap |-> DefaultChunkOverlap]

StoredChunks(name) ==
    {rows[k].chunk : k \in {k \in 1..Len(rows) : rows[k].source = name}}

\* addDocuments is inserting the rows of file `name`.
Inserting(name) ==
    \E r \in Req : pc[r] = "ix_insert" /\ req[r].files[loc[r].i].name = name

\* C9: a file is either absent from the store or has all of its chunks
\* stored (whenever no addDocuments is in the middle of inserting them).
C9_FileAllOrNothing ==
    \A f \in SentFiles :
        ~Inserting(f.name) =>
            StoredChunks(f.name) \in
                {{}, 1..Len(CreateDocuments(f.content, DefaultSplitter))}

\* The request ended with an ERROR of errorType INDEX_DOCUMENTS.
IndexFailed(r) ==
    /\ IsIndex(r) /\ pc[r] = "done" /\ out[r] # <<>>
    /\ Last(out[r]) = ErrorMsg("INDEX_DOCUMENTS")

\* C10: when embedDocuments or an INSERT throws while INDEX_DOCUMENTS is
\* processing a file, the handler posts one ERROR of errorType
\* INDEX_DOCUMENTS and returns, the store keeping its rows; a request that
\* ended so has posted the progress of the files before the failing one and
\* nothing else (no INDEX_COMPLETE), the rows it inserted for those files are
\* all in the store, and it has inserted no row for a later file.
C10_MidBatchError ==
    /\ [][\A r \in Req :
            (pc[r] \in {"ix_embed", "ix_insert"} /\ pc'[r] # pc[r]
             /\ faults' # faults)
            => (/\ pc'[r] = "done"
                /\ out'[r] = Append(out[r], ErrorMsg("INDEX_DOCUMENTS"))
                /\ rows' = rows)]_vars
    /\ [](\A r \in Req :
            IndexFailed(r) =>
                LET n == Len(out[r]) - 1
                    ne == NonEmpty(req[r].files)
                IN /\ n <= Len(ne)
                   /\ \A k \in 1..n :
                        /\ out[r][k].type = "INDEX_PROGRESS"
                        /\ out[r][k].fileName = ne[k].name
                        /\ ~out[r][k].skipped
                           => ChunksBy(r, ne[k].name) = 1..out[r][k].chunkCount
                   /\ \A k \in (n + 2)..Len(ne) : ChunksBy(r, ne[k].name) = {})

\* A batch failed at its second file after the first was indexed.
C10_Witness ==
    \E r \in Req :
        /\ IndexFailed(r) /\ faults = 1
        /\ req[r].files = <<FileB, FileA>>
        /\ Len(out[r]) = 2 /\ ~out[r][1].skipped
        /\ ChunksBy(r, "b") = {1}

\* The declared success message of a request type ("": none).
SuccessType(t) ==
    CASE t = "INIT" -> "INIT_SUCCESS"
      [] t = "LOAD_MODEL" -> "MODEL_LOADED"
      [] t = "INDEX_DOCUMENTS" -> "INDEX_COMPLETE"
      [] t = "QUERY" -> "QUERY_RESULT"
      [] t = "GET_STATS" -> "STATS_RESULT"
      [] t = "CLEAR_DATABASE" -> "DATABASE_CLEARED"
      [] t = "CLEAR_MEMORY" -> "MEMORY_CLEARED"
      [] t = "GENERATE_SYNTHETIC" -> "SYNTHETIC_GENERATED"
      [] OTHER -> ""

\* The terminal messages handler r has posted.
Terminals(r) ==
    {k \in 1..Len(out[r]) : out[r][k].type \in {"ERROR", SuccessType(req[r].type)}}

\* C1: for every request, in any interleaving, the worker posts at most one
\* terminal message, a handler that has returned has posted exactly one, and
\* every request delivered is eventually answered with its terminal message,
\* given that every external call eventually returns or throws.
C1_OneTerminal ==
    /\ [](\A r \in Req :
            /\ Cardinality(Terminals(r)) <= 1
            /\ pc[r] = "done" => Cardinality(Terminals(r)) = 1)
    /\ \A r \in Req :
            (sent >= r) ~> (pc[r] = "done" /\ Cardinality(Terminals(r)) = 1)

\* Three requests have been answered, one of them after an external call
\* threw and one while another handler was suspended.
C1_Witness ==
    /\ sent = AllRequests /\ faults = 1
    /\ \A r \in 1..AllRequests : pc[r] = "done" /\ Cardinality(Terminals(r)) = 1
    /\ \E r \in 1..AllRequests : Last(out[r]).type = "ERROR"
    /\ \E r \in 1..AllRequests : (1..(r - 1)) \ doneBefore[r] # {}

\* The request was taken into the try block of lines 1131-1204, failed there
\* and had inserted rows before.
IndexPartial(r) == IndexFailed(r) /\ \E k \in 1..Len(rows) : rows[k].by = r

\* C11: after an INDEX_DOCUMENTS batch has ended, completed or stopped on an
\* error after some rows were committed, the handler has posted a
\* STATS_RESULT for that request.
C11_StatsAfterBatch ==
    \A r \in Req :
        (IndexCompleted(r) \/ IndexPartial(r))
        => \E k \in 1..Len(out[r]) : out[r][k].type = "STATS_RESULT"

\* A batch stopped on an error after its first file was committed.
C11_Witness ==
    \E r \in Req :
        /\ IndexPartial(r)
        /\ out[r][1].type = "INDEX_PROGRESS" /\ ~out[r][1].skipped

IsQuery(r) == req[r].type = "QUERY" /\ pc[r] = "done" /\ out[r] # <<>>

\* The QUERY_CHUNK payloads handler r has posted, concatenated in order.
RECURSIVE ConcatChunks(_)
ConcatChunks(ms) ==
    IF ms = <<>> THEN <<>> ELSE Head(ms).chunk \o ConcatChunks(Tail(ms))

\* The request ended with a generated answer.
Generated(r) ==
    /\ IsQuery(r)
    /\ Last(out[r]).type = "QUERY_RESULT"
    /\ ~Last(out[r]).isFallback

\* C12 (as amended): while the model generates, the chunks posted so far
\* followed by the buffered text are exactly the streamed text; the response
\* of a generated answer is the concatenation of all its QUERY_CHUNK
\* payloads with the leading and trailing whitespace removed.
C12_ChunksAreTheStream ==
    \A r \in Req :
        /\ pc[r] = "q_gen"
           => ConcatChunks(out[r]) \o loc[r].chunkBuffer = loc[r].streamedText
        /\ Generated(r) => Last(out[r]).response = Trim(ConcatChunks(out[r]))

\* C12 (as stated): the concatenation of the QUERY_CHUNK payloads of a
\* generated answer equals its response character for character.
C12_ChunksEqualResponse ==
    \A r \in Req : Generated(r) => Last(out[r]).response = ConcatChunks(out[r])

\* A generated answer that was streamed in two chunks or more and whose
\* response is not their concatenation.
C12_Witness ==
    \E r \in Req :
        /\ Generated(r)
        /\ Cardinality({k \in 1..Len(out[r]) : out[r][k].type = "QUERY_CHUNK"}) >= 2
        /\ Last(out[r]).response # <<>>
        /\ Last(out[r]).response # ConcatChunks(out[r])

\* C13: when the model call throws, the QUERY ends with a fallback
\* QUERY_RESULT.
C13_GenerationFailureFallsBack ==
    [][\A r \in Req :
          (pc[r] = "q_gen" /\ pc'[r] = "done" /\ faults' # faults)
          => /\ Last(out'[r]).type = "QUERY_RESULT"
             /\ Last(out'[r]).isFallback]_vars

\* A QUERY whose model call threw.
C13_Witness ==
    \E r \in Req : IsQuery(r) /\ Last(out[r]) = ErrorText("QUERY", "generate")

\* The k-th result as the fallback lists it.
Listed(results, k) == <<"[", ToString(k), "]", " ">> \o PageContent(results[k])

BlankLine == <<"\n", "\n">>

\* The fallback message for the rows rs of the table.
FallbackFor(rs) ==
    LET results == SubSeq(rs, 1, IF Len(rs) < TopK THEN Len(rs) ELSE TopK)
        text == CASE Len(results) = 0 -> NoDocuments
                  [] Len(results) = 1 -> Listed(results, 1)
                  [] Len(results) = 2 ->
                       Listed(results, 1) \o BlankLine \o Listed(results, 2)
                  [] OTHER ->
                       Listed(results, 1) \o BlankLine \o Listed(results, 2)
                       \o BlankLine \o Listed(results, 3)
    IN [Msg("QUERY_RESULT") EXCEPT !.isFallback = TRUE, !.response = text]

Accepted(r) ==
    /\ IsQuery(r)
    /\ req[r].valid
    /\ \E i \in doneBefore[r] :
          /\ req[i].type = "INIT"
          /\ \E k \in 1..Len(out[i]) : out[i][k].type = "INIT_SUCCESS"

NoDocumentsFallback ==
    [Msg("QUERY_RESULT") EXCEPT !.isFallback = TRUE, !.response = NoDocuments]

GuardedLoad(l) == req[l].type \in {"LOAD_MODEL", "QUERY"}

\* In this step the message m-th is delivered and its handler finds
\* neither a model nor a load in flight.
FindsNoModel(m) ==
    /\ sent' = m /\ sent = m - 1
    /\ ~model /\ ~isModelLoading
    /\ \/ req'[m].type = "LOAD_MODEL"
       \/ req'[m].type = "QUERY" /\ req'[m].valid /\ vectorStore /\ isInitialized

\* C16: a load that fails clears the guard (isModelLoading false, no
\* promise) and leaves the model as it was; a LOAD_MODEL or QUERY that then
\* finds no model and no load in flight starts a load of its own; and a load
\* that succeeds makes the model available.
C16_FailedLoadNotCached ==
    [][\A l \in Req :
          /\ (GuardedLoad(l) /\ loads[l] = "running" /\ loads'[l] = "failed")
             => ~isModelLoading' /\ modelLoadPromise' = 0 /\ model' = model
          /\ FindsNoModel(l)
             => loads'[l] = "running" /\ isModelLoading' /\ modelLoadPromise' = l
          /\ (GuardedLoad(l) /\ loads[l] = "running" /\ loads'[l] = "ok")
             => model']_vars

\* A load failed, a later request started a fresh one, and that one
\* succeeded.
C16_Witness ==
    \E l, r \in Req :
        /\ l < r
        /\ GuardedLoad(l) /\ loads[l] = "failed"
        /\ GuardedLoad(r) /\ loads[r] = "ok"
        /\ l \in doneBefore[r]
        /\ model

\* The request was answered with DATABASE_CLEARED.
Cleared(c) ==
    /\ req[c].type = "CLEAR_DATABASE" /\ pc[c] = "done" /\ out[c] # <<>>
    /\ Last(out[c]).type = "DATABASE_CLEARED"

\* Every INDEX_DOCUMENTS request of the run had returned when c was sent.
NoIndexingSince(c) == \A t \in Req : IsIndex(t) => t \in doneBefore[c]

\* Request i is an INIT that a process after the first answered with
\* INIT_SUCCESS.
LaterInit(i) ==
    /\ req[i].type = "INIT" /\ req[i].process > 1 /\ pc[i] = "done"
    /\ \E k \in 1..Len(out[i]) : out[i][k].type = "INIT_SUCCESS"

\* C17: after DATABASE_CLEARED, with no indexing since, a new worker
\* process that has run INIT holds no rows.
C17_ClearedIsDurable ==
    \A c, i \in Req :
        (/\ Cleared(c) /\ req[c].process = 1 /\ NoIndexingSince(c)
         /\ LaterInit(i) /\ req[i].process = epoch)
        => rows = <<>>

\* A store was indexed and cleared, and the next process has run INIT.
C17_Witness ==
    \E t, c, i \in Req :
        /\ IndexCompleted(t) /\ t \in doneBefore[c]
        /\ Cleared(c) /\ req[c].process = 1 /\ NoIndexingSince(c)
        /\ LaterInit(i) /\ req[i].process = epoch

\* Every INDEX_DOCUMENTS request of the run had returned when c was sent or
\* was sent after c had returned.
NoIndexingDuring(c) ==
    \A t \in Req : IsIndex(t) => t \in doneBefore[c] \/ c \in doneBefore[t]

\* C18: a CLEAR_DATABASE that no indexing overlaps reports zero stats in
\* DATABASE_CLEARED; as long as no INDEX_DOCUMENTS has been at work since, a
\* later GET_STATS reports zeros, a later retrieval finds nothing, and a
\* later CLEAR_DATABASE gives DATABASE_CLEARED with zeros again.
C18_ClearedStoreIsEmpty ==
    \A c \in Req :
        Cleared(c) =>
            /\ NoIndexingDuring(c) => out[c] = <<StatsMsg("DATABASE_CLEARED", ZeroStats)>>
            /\ \A g \in Req :
                  (c \in doneBefore[g] /\ pc[g] = "done" /\ NoIndexingSince(c))
                  => /\ req[g].type = "GET_STATS"
                        => out[g] = <<StatsMsg("STATS_RESULT", ZeroStats)>>
                     /\ (req[g].type = "QUERY" /\ req[g].valid /\ Last(out[g]).isFallback)
                        => out[g] = <<NoDocumentsFallback>>
                     /\ req[g].type = "CLEAR_DATABASE"
                        => out[g] = <<StatsMsg("DATABASE_CLEARED", ZeroStats)>>

\* A store that held rows was cleared and a later GET_STATS was answered.
C18_Witness ==
    \E i, c, g \in Req :
        /\ req[i].type = "INIT" /\ i \in doneBefore[c]
        /\ Last(out[i]).type = "STATS_RESULT" /\ Last(out[i]).stats.totalChunks > 0
        /\ Cleared(c) /\ c \in doneBefore[g]
        /\ req[g].type = "GET_STATS" /\ pc[g] = "done"

\* What a row holds besides its id: its text, vector and metadata.
Content(rs) ==
    [k \in 1..Len(rs) |->
        [source |-> rs[k].source, chunk |-> rs[k].chunk, len |-> rs[k].len]]

ProgressOf(r, k) ==
    [Msg("INDEX_PROGRESS") EXCEPT !.fileName = req[r].files[k].name,
                                  !.chunkCount = Len(loc[r].docs)]

\* C20: when the IndexedDB transaction of saveToIndexedDB fails, the rows
\* stay, the handler posts the INDEX_PROGRESS of the file and takes the next
\* file; and when only saves fail, every INDEX_DOCUMENTS that got as far as
\* a file ends with INDEX_COMPLETE and STATS_RESULT and posts no ERROR.
C20_SaveFailureSwallowed ==
    /\ [][\A r \in Req :
            (pc[r] = "ix_put" /\ pc'[r] # "ix_put" /\ faults' # faults)
            => /\ rows' = rows
               /\ Len(out'[r]) > Len(out[r])
               /\ SubSeq(out'[r], 1, Len(out[r]) + 1)
                     = Append(out[r], ProgressOf(r, loc[r].i))
               /\ \A k \in 1..Len(out'[r]) : out'[r][k].type # "ERROR"
               /\ NextFile(req[r].files, loc[r].i + 1) # 0
                  => /\ pc'[r] = "ix_exists"
                     /\ loc'[r].i = NextFile(req[r].files, loc[r].i + 1)]_vars
    /\ [](\A r \in Req :
            (IsIndex(r) /\ pc[r] = "done" /\ out[r] # <<>>
             /\ out[r][1].type = "INDEX_PROGRESS")
            => /\ IndexCompleted(r)
               /\ \A k \in 1..Len(out[r]) : out[r][k].type # "ERROR")

\* The save of the first file failed and the handler is at the second file.
C20_Witness ==
    \E r \in Req :
        /\ IsIndex(r) /\ pc[r] = "ix_exists" /\ loc[r].i = 2
        /\ ChunksBy(r, "b") # {}
        /\ "b" \notin Sources(idb)
        /\ Last(out[r]).type = "INDEX_PROGRESS" /\ Last(out[r]).fileName = "b"

\* C21: when indexedDB.deleteDatabase fails during CLEAR_DATABASE, the
\* handler posts no ERROR for it (the request goes on to DATABASE_CLEARED)
\* and the table is empty.
C21_DeleteFailureNotFatal ==
    [][\A r \in Req :
          (pc[r] = "cl_idb" /\ pc'[r] # "cl_idb" /\ faults' # faults)
          => /\ \A k \in 1..Len(out'[r]) : out'[r][k].type # "ERROR"
             /\ rows' = <<>>]_vars

\* A CLEAR_DATABASE whose deleteDatabase failed has returned.
C21_Witness ==
    \E r \in Req :
        /\ req[r].type = "CLEAR_DATABASE" /\ pc[r] = "done"
        /\ out[r] = <<ErrorText("CLEAR_DATABASE", "deleteDatabase")>>

\* The similarity of two vectors as specified: 0 when the lengths differ or
\* a norm is 0, otherwise dot(a, b) / (|a| * |b|).
SpecifiedSimilarity(a, b) ==
    IF Len(a) # Len(b) THEN Number(0, 1)
    ELSE IF Dot(a, a) = 0 \/ Dot(b, b) = 0 THEN Number(0, 1)
    ELSE Number(Dot(a, b), Dot(a, a) * Dot(b, b))

\* C22: similaritySearch returns min(k, rows) results, each at least as
\* similar to the query as the next, and no row left out is more similar
\* than a returned one (a similarity that is undefined counting as 0).
C22_TopKSorted ==
    (call.fn = "similaritySearch" /\ call.done) =>
        LET n == Len(call.stored)
            res == call.result
            sim(i) == SpecifiedSimilarity(call.queryVector, call.stored[i])
        IN /\ Len(res) = IF n < call.k THEN n ELSE call.k
           /\ \A u \in 1..(Len(res) - 1) : ~SimLess(sim(res[u]), sim(res[u + 1]))
           /\ \A j \in 1..n :
                 (\A u \in 1..Len(res) : res[u] # j)
                 => \A u \in 1..Len(res) : ~SimLess(sim(res[u]), sim(j))

\* A search over a store with a zero-norm row and two rows of different
\* similarity has returned.
C22_Witness ==
    /\ call.fn = "similaritySearch" /\ call.done
    /\ ~ConsistentComparator([i \in 1..Len(call.stored) |->
                                  CosineSimilarity(call.queryVector, call.stored[i])])

\* C23: cosineSimilarity returns 0 for vectors of different lengths, 0 when
\* a vector has zero norm, and dot(a, b) / (|a| * |b|) otherwise.
C23_CosineAsSpecified ==
    (call.fn = "cosineSimilarity" /\ call.done)
    => call.result = SpecifiedSimilarity(call.a, call.b)

\* cosineSimilarity has been applied to a zero vector and a vector of the
\* same length.
C23_Witness ==
    /\ call.fn = "cosineSimilarity" /\ call.done
    /\ Len(call.a) = Len(call.b)
    /\ Dot(call.a, call.a) = 0

\* C24: when a QUERY builds its prompt, the chat is the system instruction,
\* then the last 6 entries of the conversation memory of that moment in
\* their order (all of them when there are fewer), then the new turn with
\* the context and the question.
C24_PromptHasLastSix ==
    [][\A r \in Req :
          (pc[r] = "q_search" /\ pc'[r] = "q_gen")
          => LET chat == loc'[r].chat
                 n == IF Len(conversationHistory) < 6
                      THEN Len(conversationHistory) ELSE 6
             IN /\ Len(chat) = n + 2
                /\ chat[1].role = "system"
                /\ \A k \in 1..n :
                      LET msg == conversationHistory[Len(conversationHistory) - n + k]
                      IN /\ chat[1 + k].content = msg.content
                         /\ chat[1 + k].role = msg.role
                /\ chat[n + 2].role = "user"
                /\ chat[n + 2].content.query = r]_vars

\* A QUERY has built its prompt from a memory of more than 6 turns.
C24_Witness ==
    \E r \in Req :
        /\ pc[r] = "q_gen"
        /\ Len(loc[r].chat) = 8
        /\ Len(conversationHistory) > 6

\* C25: the conversation memory is append-only and FIFO: a step that leaves
\* it non-empty has appended one turn at its end, after which only the
\* oldest turns may have been trimmed; nothing is replaced, dropped from the
\* middle or reordered.
C25_MemoryAppendOnly ==
    [][(conversationHistory' # conversationHistory /\ conversationHistory' # <<>>)
       => LET appended == Append(conversationHistory, Last(conversationHistory'))
          IN \E d \in 0..Len(appended) :
                conversationHistory' = SubSeq(appended, d + 1, Len(appended))]_vars

\* A QUERY with a non-empty chatHistory has been accepted while the memory
\* held the turns of an earlier QUERY.
C25_Witness ==
    \E r, q \in Req :
        /\ r # q
        /\ req[r].type = "QUERY" /\ req[r].chatHistory # <<>> /\ pc[r] \notin {"idle", "done"}
        /\ req[q].type = "QUERY" /\ req[q].chatHistory = <<>>
        /\ \E k \in 1..Len(out[q]) : out[q][k].type = "QUERY_RESULT"
        /\ \A k \in 1..Len(conversationHistory) :
              conversationHistory[k].content \notin {q}

\* C26: every QUERY delivered eventually has its terminal response, also
\* when the model load it waits on never settles.
C26_QueryAnsweredDespiteHungLoad ==
    \A r \in Req :
        (req[r].type = "QUERY")
        ~> (pc[r] = "done" /\ Cardinality(Terminals(r)) = 1)

\* A QUERY awaits the load that a LOAD_MODEL started and that has not
\* settled.
C26_Witness ==
    \E r, l \in Req :
        /\ req[r].type = "QUERY" /\ pc[r] = "q_join"
        /\ req[l].type = "LOAD_MODEL"
        /\ loc[r].p = l /\ loads[l] = "running"

\* C27: while a QUERY generates, after every fragment the buffer holds
\* fewer than 20 characters, at most one flush timer is pending, and exactly
\* one whenever the buffer is non-empty; a QUERY_CHUNK posted during
\* generation carries the whole buffer and is posted by a callback that
\* brought the buffer to 20 characters or by the timer firing.
C27_BufferBoundedOneTimer ==
    /\ [](\A r \in Req :
            pc[r] = "q_gen"
            => /\ Len(loc[r].chunkBuffer) < 20
               /\ Cardinality(loc[r].timers) <= 1
               /\ loc[r].chunkBuffer # <<>> => Cardinality(loc[r].timers) = 1)
    /\ [][\A r \in Req :
            (pc[r] = "q_gen" /\ pc'[r] = "q_gen" /\ out'[r] # out[r])
            => LET sentNow == Last(out'[r]).chunk IN
               /\ out'[r] = Append(out[r], ChunkMsg(sentNow))
               /\ loc'[r].chunkBuffer = <<>>
               /\ \/ /\ loc'[r].callbacks = loc[r].callbacks + 1
                     /\ Len(sentNow) >= 20
                     /\ SubSeq(sentNow, 1, Len(loc[r].chunkBuffer)) = loc[r].chunkBuffer
                  \/ /\ loc'[r].callbacks = loc[r].callbacks
                     /\ loc[r].timers # {}
                     /\ sentNow = loc[r].chunkBuffer]_vars

\* A generating QUERY that has flushed a full buffer holds text again, with
\* its timer pending.
C27_Witness ==
    \E r \in Req :
        /\ pc[r] = "q_gen"
        /\ \E k \in 1..Len(out[r]) : Len(out[r][k].chunk) >= 20
        /\ loc[r].chunkBuffer # <<>>
        /\ loc[r].chunkBufferTimeout # 0

\* C28: when generation completes, what is left in the buffer is posted as a
\* QUERY_CHUNK before QUERY_RESULT and the pending timer is cancelled: at
\* QUERY_RESULT the buffer is empty, no timer is pending, and every
\* QUERY_CHUNK of the query precedes its QUERY_RESULT.
C28_FlushBeforeResult ==
    /\ [](\A r \in Req :
            Generated(r)
            => /\ loc[r].chunkBuffer = <<>>
               /\ loc[r].timers = {}
               /\ loc[r].chunkBufferTimeout = 0
               /\ \A k \in 1..(Len(out[r]) - 1) : out[r][k].type = "QUERY_CHUNK")
    /\ [][\A r \in Req :
            (pc[r] = "q_gen" /\ pc'[r] = "done" /\ faults' = faults)
            => /\ Len(out'[r]) = Len(out[r]) + (IF loc[r].chunkBuffer # <<>> THEN 2 ELSE 1)
               /\ Last(out'[r]).type = "QUERY_RESULT"
               /\ loc[r].chunkBuffer # <<>>
                  => out'[r][Len(out[r]) + 1] = ChunkMsg(loc[r].chunkBuffer)]_vars

\* A generated answer whose last chunk is shorter than 20 characters and
\* follows a full one.
C28_Witness ==
    \E r \in Req :
        /\ Generated(r)
        /\ Len(out[r]) = 3
        /\ Len(out[r][1].chunk) >= 20
        /\ Len(out[r][2].chunk) < 20

\* x = y for two progress values that are numbers.
SameNumber(x, y) ==
    /\ ~x.nan /\ ~y.nan /\ x.den > 0 /\ y.den > 0
    /\ x.num * y.den = y.num * x.den

\* C29: on every load path the progress of a MODEL_PROGRESS lies in [0, 1],
\* and it is the input's fraction, clamped: the number itself, NN / 100 for
\* the string 'NN%', loaded / total for an object with these two fields.
C29_ProgressNormalised ==
    (call.fn = "onProgress" /\ call.done) =>
        LET progress == call.progress
            result == call.result
        IN /\ ~result.nan /\ result.den > 0
           /\ 0 <= result.num /\ result.num <= result.den
           /\ progress.kind = "number" => SameNumber(result, Clamp(progress.value))
           /\ (progress.kind = "string" /\ Len(progress.text) >= 2
               /\ progress.text[Len(progress.text)] = "%"
               /\ \A k \in 1..(Len(progress.text) - 1) : progress.text[k] \in Digits)
              => LET nn == DigitsValue(SubSeq(progress.text, 1, Len(progress.text) - 1))
                 IN SameNumber(result, Clamp(Fraction(nn, 100)))
           /\ (progress.kind = "object" /\ progress.total > 0)
              => SameNumber(result, Clamp(Fraction(progress.loaded, progress.total)))

\* onProgress has been applied to an object with total = 0, and on the QUERY
\* path to a string 'NN%'.
C29_Witness ==
    /\ call.fn = "onProgress" /\ call.done
    /\ \/ call.progress.kind = "object" /\ call.progress.total = 0
       \/ call.path = "QUERY" /\ call.progress.kind = "string"
          /\ call.progress.text = <<"4", "5", "%">>

\* C30: no step of a GENERATE_SYNTHETIC handler, whether it ends in
\* SYNTHETIC_GENERATED or in ERROR, changes the rows of the vector store, the
\* durable copy or the conversation memory.
C30_SyntheticLeavesStateAlone ==
    [][\A r \in Req :
          (req'[r].type = "GENERATE_SYNTHETIC" /\ (pc'[r] # pc[r] \/ out'[r] # out[r]))
          => /\ rows' = rows
             /\ idb' = idb
             /\ conversationHistory' = conversationHistory]_vars

\* A GENERATE_SYNTHETIC has ended in SYNTHETIC_GENERATED while the store,
\* the durable copy and the conversation memory were not empty.
C30_Witness ==
    \E r \in Req :
        /\ req[r].type = "GENERATE_SYNTHETIC" /\ pc[r] = "done"
        /\ Last(out[r]).type = "SYNTHETIC_GENERATED"
        /\ rows # <<>> /\ idb # <<>> /\ conversationHistory # <<>>

\* C31: a request of an unknown type is answered with one ERROR, and its
\* handler changes neither the rows, the durable copy, the conversation
\* memory, the model handle nor the initialization and loading flags.
C31_UnknownChangesNothing ==
    [][\A r \in Req :
          (req'[r].type = "UNKNOWN" /\ pc'[r] # pc[r])
          => /\ pc'[r] = "done"
             /\ Len(out'[r]) = 1 /\ out'[r][1].type = "ERROR"
             /\ rows' = rows /\ idb' = idb
             /\ conversationHistory' = conversationHistory
             /\ model' = model
             /\ modelLoadPromise' = modelLoadPromise
             /\ isModelLoading' = isModelLoading
             /\ isInitialized' = isInitialized
             /\ isInitializing' = isInitializing
             /\ vectorStore' = vectorStore]_vars

\* A request of an unknown type has been answered by an initialized worker
\* that holds a conversation.
C31_Witness ==
    \E r \in Req :
        /\ req[r].type = "UNKNOWN" /\ pc[r] = "done"
        /\ isInitialized
        /\ conversationHistory # <<>>

\* C32: chunking a text of L characters with chunkSize S and overlap O
\* yields windows that start at 0, S - O, 2 (S - O), ...: each but the last
\* has S characters, the last ends at L and is the first to reach it, so
\* every character is covered; 1000 characters with S = 500 and O = 50 give
\* the three windows [0, 500), [450, 950), [900, 1000); every chunk carries
\* the file name as its source.
C32_ChunkWindows ==
    (call.fn = "createDocuments" /\ call.done) =>
        LET S == call.splitter.chunkSize
            O == call.splitter.chunkOverlap
            L == call.file.content
            chunks == call.result
            n == Len(chunks)
            start(k) == (k - 1) * (S - O)
            end(k) == start(k) + chunks[k].len
        IN /\ n >= 1
           /\ \A k \in 1..(n - 1) : chunks[k].len = S /\ end(k) < L
           /\ chunks[n].len >= 1 /\ chunks[n].len <= S
           /\ end(n) = L
           /\ \A c \in 0..(L - 1) : \E k \in 1..n : start(k) <= c /\ c < end(k)
           /\ \A k \in 1..n : chunks[k].source = call.file.name
           /\ (S = 500 /\ O = 50 /\ L = 1000)
              => /\ n = 3
                 /\ <<start(1), end(1)>> = <<0, 500>>
                 /\ <<start(2), end(2)>> = <<450, 950>>
                 /\ <<start(3), end(3)>> = <<900, 1000>>

\* A text of 1000 characters has been chunked with the default splitter.
C32_Witness ==
    /\ call.fn = "createDocuments" /\ call.done
    /\ call.file.content = 1000
    /\ call.splitter.chunkSize = 500 /\ call.splitter.chunkOverlap = 50
    /\ Len(call.result) = 3

\* C33: in any interleaving of INDEX_DOCUMENTS requests the store never
\* holds two copies of a chunk of one file name.
C33_ChunksInsertedOnce ==
    \A i, j \in 1..Len(rows) :
        (rows[i].source = rows[j].source /\ rows[i].chunk = rows[j].chunk) => i = j

\* Two INDEX_DOCUMENTS requests that name the same file are past its
\* fileExists at the same time.
C33_Witness ==
    \E r, q \in Req :
        /\ r # q /\ IsIndex(r) /\ IsIndex(q)
        /\ pc[r] \in {"ix_embed", "ix_insert"} /\ pc[q] \in {"ix_embed", "ix_insert"}
        /\ req[r].files[loc[r].i].name = req[q].files[loc[q].i].name

\* The places of a QUERY handler before its similaritySearch has returned.
BeforeRetrieved == {"idle", "q_join", "q_own", "q_search"}

\* C34: within one QUERY, generation begins only when similaritySearch has
\* returned: the handler enters generation from the returning search only,
\* and before that it has posted no QUERY_CHUNK and its streamer has not
\* been called.
C34_RetrievalBeforeGeneration ==
    /\ [](\A r \in Req :
            pc[r] \in BeforeRetrieved
            => /\ \A k \in 1..Len(out[r]) : out[r][k].type # "QUERY_CHUNK"
               /\ loc[r].callbacks = 0 /\ loc[r].streamedText = <<>>)
    /\ [][\A r \in Req :
            (pc'[r] = "q_gen" /\ pc[r] # "q_gen")
            => (pc[r] = "q_search" /\ faults' = faults)]_vars

\* A QUERY whose search has returned is streaming.
C34_Witness ==
    \E r \in Req :
        /\ req[r].type = "QUERY" /\ pc[r] = "q_gen"
        /\ \E k \in 1..Len(out[r]) : out[r][k].type = "QUERY_CHUNK"

\* C35: a QUERY starts no model load and waits for none before its
\* similaritySearch has finished.
C35_RetrievalBeforeLoad ==
    [][\A r \in Req :
          req'[r].type = "QUERY"
          => /\ (loads'[r] = "running" /\ loads[r] # "running") => pc[r] = "q_search"
             /\ (pc'[r] \in {"q_join", "q_own"} /\ pc[r] # pc'[r]) => pc[r] = "q_search"]_vars

\* A QUERY calls similaritySearch after the load it started has settled.
C35_Witness ==
    \E r \in Req :
        /\ req[r].type = "QUERY" /\ pc[r] = "q_search"
        /\ loads[r] \in {"ok", "failed"}

\* C37: no QUERY_CHUNK follows the terminal response of its query, be it
\* QUERY_RESULT or ERROR.
C37_NoChunkAfterTerminal ==
    \A r \in Req :
        \A k, j \in 1..Len(out[r]) :
            (k < j /\ out[r][k].type \in {"QUERY_RESULT", "ERROR"})
            => out[r][j].type # "QUERY_CHUNK"

\* The model call of a QUERY threw while text was buffered and the flush
\* timer pending.
C37_Witness ==
    \E r \in Req :
        /\ req[r].type = "QUERY" /\ pc[r] = "done"
        /\ Last(out[r]).type = "ERROR"
        /\ loc[r].chunkBuffer # <<>> /\ loc[r].timers # {}

\* C39: when a QUERY builds its prompt, its own user turn is the last entry
\* of the conversation memory and so the last history turn of the chat; at
\* most 5 earlier turns precede it.
C39_QuestionIsLastHistoryTurn ==
    [][\A r \in Req :
          (pc[r] = "q_search" /\ pc'[r] = "q_gen")
          => LET chat == loc'[r].chat IN
             /\ conversationHistory # <<>>
             /\ Last(conversationHistory) = UserTurn(r)
             /\ Len(chat) >= 3 /\ Len(chat) <= 8
             /\ chat[Len(chat) - 1] = UserTurn(r)
             /\ chat[Len(chat)].content.query = r]_vars

\* A QUERY awaits its similaritySearch, a model is loaded, and the last
\* entry of the memory is not its user turn.
C39_Witness ==
    \E r \in Req :
        /\ req[r].type = "QUERY" /\ pc[r] = "q_search" /\ model
        /\ (conversationHistory = <<>> \/ Last(conversationHistory) # UserTurn(r))

\* Handler r of a CLEAR_DATABASE takes a step.
ClearStep(r) ==
    /\ req'[r].type = "CLEAR_DATABASE"
    /\ pc[r] # "done"
    /\ pc'[r] # pc[r] \/ out'[r] # out[r]

\* The step of handler r posts its ERROR.
PostsError(r) ==
    /\ Len(out'[r]) = Len(out[r]) + 1
    /\ Last(out'[r]).type = "ERROR"

\* The step of handler r is the return of clearDatabase(): the handler goes
\* on to getStats or, with no connection, has its zeros at once.
ClearDatabaseReturns(r) ==
    /\ pc[r] \in {"idle", "cl_idb"}
    /\ pc'[r] \in {"stats_count", "stats_meta", "done"}
    /\ ~PostsError(r)

\* C40: a CLEAR_DATABASE whose clearDatabase() returns empties the
\* conversation memory on that step, and only a handler that took that step
\* posts DATABASE_CLEARED; a CLEAR_DATABASE that ends in ERROR (worker not
\* initialized, or clearDatabase threw) leaves the memory as it was on every
\* one of its steps.  No step of the handler changes isInitialized, the
\* vector store, the text splitter or the engine's connection, so that an
\* INDEX_DOCUMENTS or QUERY with a valid payload delivered after
\* DATABASE_CLEARED is accepted without a new INIT.
C40_ClearDatabaseMemory ==
    [][\A r \in Req :
          /\ ClearStep(r) =>
                /\ isInitialized' = isInitialized
                /\ vectorStore' = vectorStore
                /\ textSplitter' = textSplitter
                /\ globalDuckDBConnection' = globalDuckDBConnection
                /\ IF ClearDatabaseReturns(r)
                   THEN conversationHistory' = <<>>
                   ELSE conversationHistory' = conversationHistory
                /\ (\E k \in 1..Len(out'[r]) : out'[r][k].type = "DATABASE_CLEARED")
                   => (ClearDatabaseReturns(r) \/ pc[r] \in {"stats_count", "stats_meta"})
                /\ pc'[r] \in {"stats_count", "stats_meta"}
                   => (ClearDatabaseReturns(r) \/ pc[r] \in {"stats_count", "stats_meta"})
          /\ (/\ pc[r] = "idle" /\ pc'[r] # "idle"
              /\ req'[r].type \in {"INDEX_DOCUMENTS", "QUERY"} /\ req'[r].valid
              /\ \E c \in Req : Cleared(c))
             => /\ isInitialized /\ vectorStore
                /\ \A k \in 1..Len(out'[r]) : out'[r][k].type # "ERROR"]_vars

\* A QUERY was answered, a later CLEAR_DATABASE ended in DATABASE_CLEARED
\* and the memory is empty.
C40_Witness ==
    \E q, c \in Req :
        /\ req[q].type = "QUERY" /\ q \in doneBefore[c]
        /\ \E k \in 1..Len(out[q]) : out[q][k].type = "QUERY_RESULT"
        /\ Cleared(c)
        /\ conversationHistory = <<>>

\* The INIT messages the hook has posted to its worker.
InitsPosted == {k \in 1..Len(hook.posted) : hook.posted[k].type = "INIT"}

\* C36: the hook posts INIT to its worker at most once, whichever of READY
\* and the 500 ms timer comes first and whatever answer to INIT is handled
\* in between; the later of the two posts nothing.
C36_InitSentOnce ==
    /\ [](Cardinality(InitsPosted) <= 1)
    /\ [][(~hook.readyPosted \/ ~hook.timeoutId)
          => (hook'.readyPosted = hook.readyPosted /\ hook'.timeoutId = hook.timeoutId)
             \/ (InitsPosted' = InitsPosted /\ Cardinality(InitsPosted) = 1)]_vars

\* READY sent INIT, the ERROR of the failed INIT has been handled, and then
\* the timer has fired.
C36_Witness ==
    /\ ~hook.readyPosted /\ ~hook.timeoutId
    /\ Cardinality(InitsPosted) = 1
    /\ \E r \in Req :
        /\ req[r].type = "INIT" /\ pc[r] = "done"
        /\ Last(out[r]).type = "ERROR" /\ hook.seen[r] = Len(out[r])
    /\ ~hook.isInitializedRef /\ hook.initSentRef

\* The step posts a QUERY.
PostsQuery ==
    /\ Len(hook'.posted) > Len(hook.posted)
    /\ Last(hook'.posted).type = "QUERY"

\* The chat of the hook up to and including the user message of query r.
ChatThrough(history, r) ==
    SubSeq(history, 1,
           CHOOSE k \in 1..Len(history) : history[k] = UserTurn(r))

\* C38: the chatHistory the hook posts with a QUERY is the chat that
\* precedes the current user message, every turn of it in order; and when
\* the worker has taken the QUERY up and pushed its user turn, the memory is
\* that chat followed by the new user turn.
C38_PayloadIsPriorChat ==
    [][/\ PostsQuery => Last(hook'.posted).chatHistory = hook.chatHistory
       /\ \A r \in Req :
            (/\ pc[r] = "idle" /\ pc'[r] # "idle" /\ req'[r].type = "QUERY"
             /\ \E k \in 1..Len(hook.chatHistory) : hook.chatHistory[k] = UserTurn(r))
            => conversationHistory' = ChatThrough(hook.chatHistory, r)]_vars

\* A second question has been asked after the first was answered: the chat
\* held two turns and the QUERY carries the first of them only.
C38_Witness ==
    \E k \in 1..Len(hook.posted), q \in Req :
        /\ hook.posted[k].type = "QUERY" /\ q < k
        /\ hook.posted[k].chatHistory = <<UserTurn(q)>>
        /\ hook.chatHistory = <<UserTurn(q), AssistantTurn(q), UserTurn(k)>>

====
